---- MODULE Spec2Model ----
(***************************************************************************)
(* Model of the dot-goal-journal date-range aggregation and calendar-grid  *)
(* layout code: utils/dates.ts, utils/streak.ts, hooks/useStats.ts,        *)
(* components/dots/WeeklyDotGrid.tsx, the goal and day stores, the create  *)
(* and settings screens, and the goal screen with its day detail modal.    *)
(*                                                                         *)
(* Representation.  A date string "YYYY-MM-DD" is the tuple <<y, m, d>>    *)
(* (m in 1..12); string comparison is the lexicographic order StrLE.  A    *)
(* JavaScript Date at local midnight is its day number: the count of local *)
(* calendar days since 1970-01-01.  Time of day and DST are not modelled.  *)
(* An Invalid Date is the value InvalidDate.                               *)
(***************************************************************************)
EXTENDS Integers, Sequences, FiniteSets, TLC

VARIABLES
  goals,     \* useGoalStore.goals: sequence of Goal records
  days,      \* useDayStore.days: function from <<goalId, date>> to DayEntry
  now,       \* the device clock, as a local day number
  grid,      \* the value of WeeklyDotGrid's useMemo (or NoValue)
  stats,     \* the Stats record under construction / returned by useStats
  reads,     \* the value of `today` each helper of useStats read
  pc,        \* position of the running useStats computation
  create,    \* CreateGoalScreen local state (or NoValue when not mounted)
  settings,  \* GoalSettingsScreen local state (or NoValue when not mounted)
  modal,     \* DayDetailModal state as last rendered (or NoValue when closed)
  hasCheckedCompletion,  \* the ref of that name of the mounted GoalScreen
  scheduled, \* the notifications the OS holds scheduled
  calls      \* the calls of scheduleGoalNotification made so far, each with
             \* its position and locals

vars == <<goals, days, now, grid, stats, reads, pc, create, settings, modal,
          hasCheckedCompletion, scheduled, calls>>

NoValue == [kind |-> "none"]
InvalidDate == -1

----------------------------------------------------------------------------
(* Bounds of the model *)

\* Number of days after FirstDay or SecondDay from which a goal may start.
WindowLen == 6
\* Largest number of days in a goal drawn in Init.
MaxLen == 3
\* Largest number of days by which a drawn goal's end may precede its start.
MaxBack == 2
\* Goals of the statistics runs start within this many days of FirstDay.
StatsWindowLen == 6
\* Midnights that may pass while one statistics computation runs.
MaxTicks == 1
\* Goals the store may hold, and the days after FirstDay a date picker offers.
MaxGoals == 2
MaxPick == 2
\* Long goals last a multiple of SpanStep days, up to MaxSpans times; those
\* the statistics are computed for start up to LongStatsWindowLen days after
\* FirstDay.
SpanStep == 16
MaxSpans == 7
\* Calls of scheduleGoalNotification made at most.
MaxCalls == 3
\* Goals the card-order operations create at most.
MaxOrdered == 3
LongStatsWindowLen == 2
\* Days after the first start day of the goal screen's goal that a goal may
\* also start on.
DaysWindowLen == 0

----------------------------------------------------------------------------
(* The proleptic Gregorian calendar, as JavaScript's Date implements it *)

IsLeapYear(y) == (y % 4 = 0 /\ y % 100 # 0) \/ y % 400 = 0

DaysInMonth(y, m) ==
  IF m = 2 THEN (IF IsLeapYear(y) THEN 29 ELSE 28)
  ELSE IF m \in {4, 6, 9, 11} THEN 30 ELSE 31

\* Day number of the civil date y-m-d (m in 1..12; d may lie outside the month
\* and then rolls over, as the Date constructor does).
DaysFromCivil(y, m, d) ==
  LET yy  == IF m <= 2 THEN y - 1 ELSE y
      era == yy \div 400
      yoe == yy - era * 400
      mp  == IF m > 2 THEN m - 3 ELSE m + 9
      doy == (153 * mp + 2) \div 5 + d - 1
      doe == yoe * 365 + yoe \div 4 - yoe \div 100 + doy
  IN  era * 146097 + doe - 719468

\* The civil date <<y, m, d>> of a day number.
CivilFromDays(n) ==
  LET z   == n + 719468
      era == z \div 146097
      doe == z - era * 146097
      yoe == (doe - doe \div 1460 + doe \div 36524 - doe \div 146096) \div 365
      doy == doe - (365 * yoe + yoe \div 4 - yoe \div 100)
      mp  == (5 * doy + 2) \div 153
      d   == doy - (153 * mp + 2) \div 5 + 1
      m   == IF mp < 10 THEN mp + 3 ELSE mp - 9
      y   == yoe + era * 400 + (IF m <= 2 THEN 1 ELSE 0)
  IN  <<y, m, d>>

\* First day on which a drawn goal may start: Thursday 2024-12-26.  December
\* 2024 begins on a Sunday and so spans six Monday-start weeks; the window
\* also crosses a month and a year boundary.
FirstDay == DaysFromCivil(2024, 12, 26)

\* Monday 2025-01-27: the week from it lies in January and February 2025.
SecondDay == DaysFromCivil(2025, 1, 27)

\* Day numbers the model may touch (a goal, its boundary weeks and months, and
\* the longest duration preset after it).
CalDays == (FirstDay - 62) .. (FirstDay + WindowLen + MaxLen + 460)

CivilTable == [n \in CalDays |-> CivilFromDays(n)]

\* The days for which derived calendar tables are kept (their weeks and months
\* stay inside CalDays).
MemoDays == (FirstDay - 40) .. (FirstDay + WindowLen + MaxLen + 400)

\* LET x == v IN Op(x), with v evaluated once.
Let(v, Op(_)) == CHOOSE r \in {Op(x) : x \in {v}} : TRUE

\* Date.prototype.getFullYear / getMonth (0..11) / getDate / getDay (0 = Sunday)
getFullYear(n) == CivilTable[n][1]
getMonth(n) == CivilTable[n][2] - 1
getDate(n) == CivilTable[n][3]
getDay(n) == (n + 4) % 7

\* new Date(year, month, day) with month 0-based and possibly >= 12.
NewDate(year, month, day) ==
  DaysFromCivil(year + month \div 12, (month % 12) + 1, day)

\* date.setDate(k): day k of date's month, rolling over outside the month.
setDate(n, k) == NewDate(getFullYear(n), getMonth(n), k)

\* Math.round(a / b) for b > 0, on the exact quotient: a quotient ending in .5
\* goes up.  (The double product (x / b) * 100 of the code can differ from the
\* exact quotient only in the last bits, which matters only on such a half.)
MathRound(a, b) == (2 * a + b) \div (2 * b)

\* String comparison of two date strings.
StrLT(a, b) ==
  \/ a[1] < b[1]
  \/ a[1] = b[1] /\ a[2] < b[2]
  \/ a[1] = b[1] /\ a[2] = b[2] /\ a[3] < b[3]

StrLE(a, b) == a = b \/ StrLT(a, b)

----------------------------------------------------------------------------
(* utils/dates.ts *)

\* format(date, 'yyyy-MM-dd')
toDateString(n) == <<getFullYear(n), getMonth(n) + 1, getDate(n)>>

\* parseISO: local midnight of the date, Invalid Date when the string names
\* no calendar date.
fromDateString(s) ==
  IF s[2] \in 1..12 /\ s[3] \in 1..DaysInMonth(s[1], s[2])
  THEN DaysFromCivil(s[1], s[2], s[3])
  ELSE InvalidDate

getTodayString(clock) == toDateString(clock)

isToday(s, clock) == fromDateString(s) = clock

isPast(s, clock) == fromDateString(s) < clock

\* isFuture that lets tomorrow pass as not yet in the future.
isFutureAfterTomorrow(s, clock) == fromDateString(s) > clock + 1

isFuture(s, clock) == fromDateString(s) > clock

\* The two behaviours of date-fns' eachDayOfInterval on an interval whose
\* start is after its end or whose ends are invalid: releases before 3.0
\* throw RangeError, later ones return the days in reverse (an empty list for
\* an invalid end).  The repository pins no release.
DateFnsReleases == {"v2", "v3"}

\* The days a, a+1, .., b and a, a-1, .., b.
DaysUp(a, b) == [i \in 1..(b - a + 1) |-> a + (i - 1)]

DaysDown(a, b) == [i \in 1..(a - b + 1) |-> a - (i - 1)]

\* The outcome of a call: a thrown RangeError, or the returned list.
RangeError == [kind |-> "RangeError"]
Returned(list) == [kind |-> "list", list |-> list]

eachDayOfInterval(start, end, release) ==
  IF start = InvalidDate \/ end = InvalidDate
  THEN (IF release = "v2" THEN RangeError ELSE Returned(<<>>))
  ELSE IF start > end
  THEN (IF release = "v2" THEN RangeError ELSE Returned(DaysDown(start, end)))
  ELSE Returned(DaysUp(start, end))

\* getDateRange stopping one day short of the end date.
getDateRangeEndExclusive(startDate, endDate, release) ==
  LET interval == eachDayOfInterval(fromDateString(startDate),
                                    fromDateString(endDate) - 1, release)
  IN  IF interval = RangeError THEN RangeError
      ELSE Returned([i \in DOMAIN interval.list |-> toDateString(interval.list[i])])

\* getDateRange: the list of date strings, or the RangeError thrown through it.
getDateRange(startDate, endDate, release) ==
  LET interval == eachDayOfInterval(fromDateString(startDate),
                                    fromDateString(endDate), release)
  IN  IF interval = RangeError THEN RangeError
      ELSE Returned([i \in DOMAIN interval.list |-> toDateString(interval.list[i])])

\* addDays(start, days - 1)
calculateEndDate(startDate, durationDays) ==
  toDateString(fromDateString(startDate) + (durationDays - 1))

\* differenceInDays(end, start) + 1
getDayCount(startDate, endDate) ==
  (fromDateString(endDate) - fromDateString(startDate)) + 1

----------------------------------------------------------------------------
(* The day ledger (stores/dayStore.ts) as the aggregations read it *)

createKey(goalId, date) == <<goalId, date>>

\* days[key]?.isCompleted ?? false
\* days[key]?.isCompleted read as: an entry is stored under the key.
EntryPresent(ledger, goalId, date) ==
  createKey(goalId, date) \in DOMAIN ledger

EntryCompleted(ledger, goalId, date) ==
  LET key == createKey(goalId, date)
  IN  IF key \in DOMAIN ledger THEN ledger[key].isCompleted ELSE FALSE

----------------------------------------------------------------------------
(* components/dots/WeeklyDotGrid.tsx *)

\* new Date(dateStr + 'T00:00:00'): local midnight of the date, Invalid Date
\* when the month of the string is no month.
ParseLocal(s) ==
  IF s[2] \in 1..12 THEN DaysFromCivil(s[1], s[2], s[3]) ELSE InvalidDate

formatLocalDate(n) == <<getFullYear(n), getMonth(n) + 1, getDate(n)>>

getMondayOfWeek(dateStr) ==
  LET date == ParseLocal(dateStr)
      day  == getDay(date)
      diff == getDate(date) - day + (IF day = 0 THEN -6 ELSE 1)
  IN  formatLocalDate(setDate(date, diff))

\* getMondayOfWeek of every date the model may touch, computed once.
MondayOf == [n \in MemoDays |-> getMondayOfWeek(formatLocalDate(n))]

\* The Date of the Thursday of the week starting at the given Monday.
\* getThursdayOfWeek without the three days it adds to the Monday.
getThursdayOfWeekNoShift(mondayDateStr) == ParseLocal(mondayDateStr)

getThursdayOfWeek(mondayDateStr) ==
  LET monday == ParseLocal(mondayDateStr)
  IN  setDate(monday, getDate(monday) + 3)

getWeekOfMonth(mondayDateStr) ==
  LET thursday == getThursdayOfWeek(mondayDateStr)
      year  == getFullYear(thursday)
      month == getMonth(thursday)
      firstOfMonth == NewDate(year, month, 1)
      firstMondayStr == getMondayOfWeek(formatLocalDate(firstOfMonth))
      firstMonday == ParseLocal(firstMondayStr)
      firstWeekThursday == getThursdayOfWeek(firstMondayStr)
      adjustedFirstMonday ==
        IF getMonth(firstWeekThursday) # month
        THEN setDate(firstMonday, getDate(firstMonday) + 7)
        ELSE firstMonday
      monday == ParseLocal(mondayDateStr)
      diffWeeks == MathRound(monday - adjustedFirstMonday, 7)
  IN  [weekOfMonth |-> diffWeeks, month |-> month, year |-> year]

\* getWeekOfMonth of every date the model may touch, computed once.
WeekOfMonthOf == [n \in MemoDays |-> getWeekOfMonth(formatLocalDate(n))]

getDayOfWeekIndex(dateStr) ==
  LET day == getDay(ParseLocal(dateStr))
  IN  IF day = 0 THEN 6 ELSE day - 1

\* getWeekDates counting the seven days from the Sunday before the Monday.
getWeekDatesFromSunday(mondayStr) ==
  LET monday == ParseLocal(mondayStr)
  IN  [k \in 1..7 |-> formatLocalDate(setDate(monday, getDate(monday) + (k - 2)))]

\* The seven date strings of the week starting at the given Monday.
getWeekDates(mondayStr) ==
  LET monday == ParseLocal(mondayStr)
  IN  [k \in 1..7 |-> formatLocalDate(setDate(monday, getDate(monday) + (k - 1)))]

\* Array.prototype.sort() of a set of date strings.
SortStrings(S) ==
  [i \in 1..Cardinality(S) |->
     CHOOSE a \in S : Cardinality({b \in S : StrLT(b, a)}) = i - 1]

\* The WeekDayData of a goal date (the body of dates.forEach).
DayData(date, lastDate, ledger, goalId, clock) ==
  [date          |-> date,
   isCompleted   |-> EntryCompleted(ledger, goalId, date),
   isFuture      |-> isFuture(date, clock),
   isLastDay     |-> date = lastDate,
   isToday       |-> isToday(date, clock),
   isPlaceholder |-> FALSE]

\* The placeholder pushed for a day of a week that no goal date fills.
RangePlaceholder(date) ==
  [date          |-> date,
   isCompleted   |-> FALSE,
   isFuture      |-> FALSE,
   isLastDay     |-> FALSE,
   isToday       |-> FALSE,
   isPlaceholder |-> TRUE]

\* Largest element of a non-empty set of integers.
SetMax(S) == CHOOSE x \in S : \A y \in S : y <= x

\* One WeekData: seven cells (index 1 = Monday), filled from the goal dates
\* whose Monday this is (a later date of the list overwrites an earlier one at
\* the same position, as Map.set does).
WeekOf(monday, dates, ledger, goalId, clock) ==
  LET lastDate == dates[Len(dates)]
      At(i)    == {k \in DOMAIN dates :
                     /\ MondayOf[ParseLocal(dates[k])] = monday
                     /\ getDayOfWeekIndex(dates[k]) = i}
  IN  Let(WeekOfMonthOf[ParseLocal(monday)], LAMBDA wom :
        [weekNumber |-> wom.weekOfMonth,
         days       |-> [c \in 1..7 |->
                           IF At(c - 1) # {}
                           THEN DayData(dates[SetMax(At(c - 1))], lastDate,
                                        ledger, goalId, clock)
                           ELSE RangePlaceholder(getWeekDates(monday)[c])],
         startDate  |-> monday,
         month      |-> wom.month,
         year       |-> wom.year])

groupIntoWeeks(dates, ledger, goalId, clock) ==
  Let(SortStrings({MondayOf[ParseLocal(dates[k])] : k \in DOMAIN dates}),
      LAMBDA sortedMondays :
        [w \in DOMAIN sortedMondays |->
           WeekOf(sortedMondays[w], dates, ledger, goalId, clock)])

\* getWeekColumnNumbers with a least column index of 5 instead of 4.
getWeekColumnNumbersFromFive(weeks) ==
  Let(SetMax({5} \cup {weeks[w].weekNumber : w \in DOMAIN weeks}),
      LAMBDA maxWeekOfMonth : [i \in 1..(maxWeekOfMonth + 1) |-> i])

getWeekColumnNumbers(weeks) ==
  Let(SetMax({4} \cup {weeks[w].weekNumber : w \in DOMAIN weeks}),
      LAMBDA maxWeekOfMonth : [i \in 1..(maxWeekOfMonth + 1) |-> i])

\* The while loop of getAllMonths: current is the first of a month.
RECURSIVE MonthsFrom(_, _)
MonthsFrom(current, end) ==
  IF current <= end
  THEN <<[month |-> getMonth(current), year |-> getFullYear(current)]>>
       \o Let(NewDate(getFullYear(current), getMonth(current) + 1, 1),
              LAMBDA next : MonthsFrom(next, end))
  ELSE <<>>

\* getAllMonths keeping only the month of the start and the month of the end.
getAllMonthsOfEnds(startDate, endDate) ==
  LET start == ParseLocal(startDate)
      end   == ParseLocal(endDate)
      first == [month |-> getMonth(start), year |-> getFullYear(start)]
      last  == [month |-> getMonth(end), year |-> getFullYear(end)]
  IN  IF start > end THEN <<>>
      ELSE IF first = last THEN <<first>> ELSE <<first, last>>

\* With an Invalid Date at either end, `current <= end` compares with NaN and
\* is false at once.
getAllMonths(startDate, endDate) ==
  LET start == ParseLocal(startDate)
      end   == ParseLocal(endDate)
  IN  IF start = InvalidDate \/ end = InvalidDate THEN <<>>
      ELSE Let(NewDate(getFullYear(start), getMonth(start), 1),
               LAMBDA first : MonthsFrom(first, end))

weekHasDaysInMonth(weekStartMonday, targetMonth, targetYear) ==
  \E k \in 0..6 :
    /\ getMonth(ParseLocal(weekStartMonday) + k) = targetMonth
    /\ getFullYear(ParseLocal(weekStartMonday) + k) = targetYear

getWeekOfMonthForDisplay(weekStartMonday, targetMonth, targetYear) ==
  LET firstOfMonth == NewDate(targetYear, targetMonth, 1)
      firstMonday  == ParseLocal(MondayOf[firstOfMonth])
      weekMonday   == ParseLocal(weekStartMonday)
  IN  Let(MathRound(weekMonday - firstMonday, 7),
          LAMBDA diffWeeks : IF diffWeeks > 0 THEN diffWeeks ELSE 0)

\* adjustWeekForMonth leaving the days of the other month as they are.
adjustWeekForMonthUnmasked(week, targetMonth, targetYear) == week

adjustWeekForMonth(week, targetMonth, targetYear) ==
  [week EXCEPT !.days =
     [c \in 1..7 |->
        IF \/ getMonth(ParseLocal(week.days[c].date)) # targetMonth
           \/ getFullYear(ParseLocal(week.days[c].date)) # targetYear
        THEN [week.days[c] EXCEPT !.isCompleted = FALSE, !.isFuture = FALSE,
                                  !.isLastDay = FALSE, !.isToday = FALSE,
                                  !.isPlaceholder = TRUE]
        ELSE week.days[c]]]

\* monthWeekMaps.get(monthKey).get(weekOfMonth) || null : the last week of the
\* list that was set at that index of that month.
MonthWeekAt(weeks, monthInfo, weekOfMonth) ==
  Let({w \in DOMAIN weeks :
         /\ weekHasDaysInMonth(weeks[w].startDate, monthInfo.month, monthInfo.year)
         /\ getWeekOfMonthForDisplay(weeks[w].startDate, monthInfo.month,
                                     monthInfo.year) = weekOfMonth},
      LAMBDA hits :
        IF hits = {} THEN NoValue
        ELSE adjustWeekForMonth(weeks[SetMax(hits)], monthInfo.month,
                                monthInfo.year))

organizeIntoGrid(weeks, weekColumnNumbers, months) ==
  [r \in DOMAIN months |->
     [monthKey |-> <<months[r].year, months[r].month>>,
      year     |-> months[r].year,
      weeks    |-> [c \in DOMAIN weekColumnNumbers |->
                      MonthWeekAt(weeks, months[r], weekColumnNumbers[c] - 1)]]]

\* The rest of the callback once getDateRange has returned: its locals
\* dateRange and weeks, and the two values it returns.
BuildGrid(dateRange, goal, ledger, clock) ==
  Let(groupIntoWeeks(dateRange, ledger, goal.id, clock), LAMBDA weeks :
    Let(getWeekColumnNumbers(weeks), LAMBDA columnNumbers :
      Let(getAllMonths(goal.startDate, goal.endDate), LAMBDA months :
        [kind |-> "grid",
         dateRange |-> dateRange,
         weeks |-> weeks,
         weekColumnNumbers |-> columnNumbers,
         monthRows |-> organizeIntoGrid(weeks, columnNumbers, months)])))

\* The useMemo callback of WeeklyDotGrid; the RangeError of getDateRange
\* propagates out of it.
WeeklyDotGrid(goal, ledger, clock, release) ==
  Let(getDateRange(goal.startDate, goal.endDate, release), LAMBDA dateRange :
    IF dateRange = RangeError THEN RangeError
    ELSE BuildGrid(dateRange.list, goal, ledger, clock))

----------------------------------------------------------------------------
(* date-fns ISO week helpers used by hooks/useStats.ts *)

startOfISOWeek(n) == n - ((getDay(n) + 6) % 7)

getISOWeekYear(n) ==
  LET year == getFullYear(n)
      startOfNextYear == startOfISOWeek(NewDate(year + 1, 0, 4))
      startOfThisYear == startOfISOWeek(NewDate(year, 0, 4))
  IN  IF n >= startOfNextYear THEN year + 1
      ELSE IF n >= startOfThisYear THEN year
      ELSE year - 1

startOfISOWeekYear(n) == startOfISOWeek(NewDate(getISOWeekYear(n), 0, 4))

getISOWeek(n) == MathRound(startOfISOWeek(n) - startOfISOWeekYear(n), 7) + 1

\* `${getISOWeekYear(d)}-W${getISOWeek(d)}` of every day the model may touch.
WeekKeyOf == [n \in MemoDays |-> <<getISOWeekYear(n), getISOWeek(n)>>]

----------------------------------------------------------------------------
(* utils/streak.ts and hooks/useStats.ts.  Every helper reads the device     *)
(* clock when it is called; `clock` is the day it read.  A helper's value is *)
(* RangeError when getDateRange throws through it.                           *)

\* The number of elements of a list that satisfy a test.
Count(list, Test(_)) == Cardinality({i \in DOMAIN list : Test(list[i])})

\* The loop of calculateCurrentStreak skipping every day that is not completed,
\* not only today.
RECURSIVE StreakBackSkippingAny(_, _, _, _, _)
StreakBackSkippingAny(relevantDates, i, ledger, goalId, today) ==
  IF i < 1 THEN 0
  ELSE IF EntryCompleted(ledger, goalId, relevantDates[i])
  THEN 1 + StreakBackSkippingAny(relevantDates, i - 1, ledger, goalId, today)
  ELSE IF i > 1
  THEN StreakBackSkippingAny(relevantDates, i - 1, ledger, goalId, today)
  ELSE 0

\* The loop of calculateCurrentStreak stopping at every day that is not
\* completed, today included.
RECURSIVE StreakBackNoSkip(_, _, _, _, _)
StreakBackNoSkip(relevantDates, i, ledger, goalId, today) ==
  IF i < 1 THEN 0
  ELSE IF EntryCompleted(ledger, goalId, relevantDates[i])
  THEN 1 + StreakBackNoSkip(relevantDates, i - 1, ledger, goalId, today)
  ELSE 0

\* The loop of calculateCurrentStreak from index i (1-based) downwards.
RECURSIVE StreakBack(_, _, _, _, _)
StreakBack(relevantDates, i, ledger, goalId, today) ==
  IF i < 1 THEN 0
  ELSE IF EntryCompleted(ledger, goalId, relevantDates[i])
  THEN 1 + StreakBack(relevantDates, i - 1, ledger, goalId, today)
  ELSE IF relevantDates[i] = today /\ i > 1
  THEN StreakBack(relevantDates, i - 1, ledger, goalId, today)
  ELSE 0

calculateCurrentStreak(ledger, goalId, startDate, endDate, clock, release) ==
  LET today == getTodayString(clock)
      IsRelevant(date) ==
        fromDateString(date) < fromDateString(today) \/ date = today
  IN  Let(getDateRange(startDate, endDate, release), LAMBDA allDates :
        IF allDates = RangeError THEN RangeError
        ELSE Let(SelectSeq(allDates.list, IsRelevant), LAMBDA relevantDates :
               StreakBack(relevantDates, Len(relevantDates), ledger, goalId, today)))

\* calculateCompletionPercentage counting every date of the range, not only
\* those up to today.
calculateCompletionPercentageAllDates(ledger, goalId, startDate, endDate, clock, release) ==
  LET Done(date) == EntryCompleted(ledger, goalId, date)
  IN  Let(getDateRange(startDate, endDate, release), LAMBDA allDates :
        IF allDates = RangeError THEN RangeError
        ELSE IF Len(allDates.list) = 0 THEN 0
        ELSE MathRound(Count(allDates.list, Done) * 100, Len(allDates.list)))

calculateCompletionPercentage(ledger, goalId, startDate, endDate, clock, release) ==
  LET today == getTodayString(clock)
      First(date) ==
        IF ~isPast(today, clock) \/ ~isPast(date, clock)
        THEN StrLE(date, today) ELSE TRUE
      Second(date) == StrLE(date, today)
      Done(date) == EntryCompleted(ledger, goalId, date)
  IN  Let(getDateRange(startDate, endDate, release), LAMBDA allDates :
        IF allDates = RangeError THEN RangeError
        ELSE Let(SelectSeq(SelectSeq(allDates.list, First), Second),
                 LAMBDA countableDates :
                   IF Len(countableDates) = 0 THEN 0
                   ELSE MathRound(Count(countableDates, Done) * 100,
                                  Len(countableDates))))

\* calculateTimeElapsedPercentage without counting today as elapsed.
calculateTimeElapsedPercentageExclusive(startDate, endDate, clock) ==
  LET totalDays == getDayCount(startDate, endDate)
      daysElapsed == clock - fromDateString(startDate)
  IN  IF daysElapsed <= 0 THEN 0
      ELSE IF daysElapsed >= totalDays THEN 100
      ELSE MathRound(daysElapsed * 100, totalDays)

calculateTimeElapsedPercentage(startDate, endDate, clock) ==
  LET totalDays == getDayCount(startDate, endDate)
      daysElapsed == (clock - fromDateString(startDate)) + 1
  IN  IF daysElapsed <= 0 THEN 0
      ELSE IF daysElapsed >= totalDays THEN 100
      ELSE MathRound(daysElapsed * 100, totalDays)

\* calculateDaysRemaining without counting the end date.
calculateDaysRemainingExclusive(startDate, endDate, clock) ==
  LET remaining == fromDateString(endDate) - clock
  IN  IF remaining > 0 THEN remaining ELSE 0

calculateDaysRemaining(startDate, endDate, clock) ==
  LET remaining == (fromDateString(endDate) - clock) + 1
  IN  IF remaining > 0 THEN remaining ELSE 0

\* The loop of calculateLongestStreak from index i on, with its two counters.
RECURSIVE LongestFrom(_, _, _, _, _, _)
LongestFrom(relevantDates, i, ledger, goalId, currentStreak, longestStreak) ==
  IF i > Len(relevantDates) THEN longestStreak
  ELSE IF EntryCompleted(ledger, goalId, relevantDates[i])
  THEN LongestFrom(relevantDates, i + 1, ledger, goalId, currentStreak + 1,
                   IF currentStreak + 1 > longestStreak
                   THEN currentStreak + 1 ELSE longestStreak)
  ELSE LongestFrom(relevantDates, i + 1, ledger, goalId, 0, longestStreak)

calculateLongestStreak(ledger, goalId, startDate, endDate, clock, release) ==
  LET today == getTodayString(clock)
      IsRelevant(date) == StrLE(date, today)
  IN  Let(getDateRange(startDate, endDate, release), LAMBDA allDates :
        IF allDates = RangeError THEN RangeError
        ELSE Let(SelectSeq(allDates.list, IsRelevant), LAMBDA relevantDates :
               LongestFrom(relevantDates, 1, ledger, goalId, 0, 0)))

\* calculateCompletionStats without its step that counts a completed today.
CompletionStatsOfPastOnly(allDates, pastDates, ledger, goalId, today) ==
  LET Done(date) == EntryCompleted(ledger, goalId, date)
      Missed(date) == ~EntryCompleted(ledger, goalId, date)
      todayIncluded == \E i \in DOMAIN allDates : allDates[i] = today
      totalCompleted == Count(pastDates, Done)
      pastDays == Len(pastDates)
  IN  [totalCompleted |-> totalCompleted,
       totalMissed    |-> Count(pastDates, Missed),
       completionRate |->
         IF pastDays > 0
         THEN MathRound(totalCompleted * 100,
                        pastDays + (IF todayIncluded THEN 1 ELSE 0))
         ELSE 0,
       pastDays       |-> pastDays]

\* The record calculateCompletionStats returns, from its list of past dates.
CompletionStatsOf(allDates, pastDates, ledger, goalId, today) ==
  LET Done(date) == EntryCompleted(ledger, goalId, date)
      Missed(date) == ~EntryCompleted(ledger, goalId, date)
      todayIncluded == \E i \in DOMAIN allDates : allDates[i] = today
      totalCompleted ==
        Count(pastDates, Done)
          + (IF todayIncluded /\ EntryCompleted(ledger, goalId, today)
             THEN 1 ELSE 0)
      pastDays == Len(pastDates)
  IN  [totalCompleted |-> totalCompleted,
       totalMissed    |-> Count(pastDates, Missed),
       completionRate |->
         IF pastDays > 0
         THEN MathRound(totalCompleted * 100,
                        pastDays + (IF todayIncluded THEN 1 ELSE 0))
         ELSE 0,
       pastDays       |-> pastDays]

calculateCompletionStats(ledger, goalId, startDate, endDate, clock, release) ==
  LET today == getTodayString(clock)
      IsPast(date) == isPast(date, clock)
  IN  Let(getDateRange(startDate, endDate, release), LAMBDA allDates :
        IF allDates = RangeError THEN RangeError
        ELSE Let(SelectSeq(allDates.list, IsPast), LAMBDA pastDates :
               CompletionStatsOf(allDates.list, pastDates, ledger, goalId, today)))

\* The weekMap of calculateWeeklyStats as the list of its values in insertion
\* order: one {count, label} per ISO week, in order of first appearance.
WeekMapValues(relevantDates, ledger, goalId) ==
  LET KeyAt(i) == WeekKeyOf[fromDateString(relevantDates[i])]
      firsts == {i \in DOMAIN relevantDates :
                   \A j \in 1..(i - 1) : KeyAt(j) # KeyAt(i)}
      Nth(k) == CHOOSE i \in firsts : Cardinality({j \in firsts : j < i}) = k - 1
  IN  [k \in 1..Cardinality(firsts) |->
         [count |-> Cardinality({i \in DOMAIN relevantDates :
                                   /\ KeyAt(i) = KeyAt(Nth(k))
                                   /\ EntryCompleted(ledger, goalId, relevantDates[i])}),
          label |-> <<"Week", KeyAt(Nth(k))[2]>>]]

\* The reduce of calculateWeeklyStats with the later week winning a tie.
RECURSIVE BestWeekLastWins(_, _, _)
BestWeekLastWins(weeks, i, best) ==
  IF i > Len(weeks) THEN best
  ELSE BestWeekLastWins(weeks, i + 1,
                        IF weeks[i].count >= best.count THEN weeks[i] ELSE best)

\* weeks.reduce((best, current) => current.count > best.count ? current : best)
RECURSIVE BestWeek(_, _, _)
BestWeek(weeks, i, best) ==
  IF i > Len(weeks) THEN best
  ELSE BestWeek(weeks, i + 1, IF weeks[i].count > best.count THEN weeks[i] ELSE best)

RECURSIVE SumCounts(_, _)
SumCounts(weeks, i) ==
  IF i > Len(weeks) THEN 0 ELSE weeks[i].count + SumCounts(weeks, i + 1)

NoWeeklyStats ==
  [averageCompletionsPerWeek |-> 0, bestWeekCompletions |-> 0,
   bestWeekLabel |-> <<"", 0>>]

\* averageCompletionsPerWeek is kept in tenths (Math.round(x * 10) / 10).
calculateWeeklyStats(ledger, goalId, startDate, endDate, clock, release) ==
  LET today == getTodayString(clock)
      IsRelevant(date) == StrLE(date, today)
  IN  Let(getDateRange(startDate, endDate, release), LAMBDA allDates :
        IF allDates = RangeError THEN RangeError
        ELSE Let(SelectSeq(allDates.list, IsRelevant), LAMBDA relevantDates :
          IF Len(relevantDates) = 0 THEN NoWeeklyStats
          ELSE Let(WeekMapValues(relevantDates, ledger, goalId), LAMBDA weeks :
            IF Len(weeks) = 0 THEN NoWeeklyStats
            ELSE Let(BestWeek(weeks, 1, weeks[1]), LAMBDA bestWeek :
              [averageCompletionsPerWeek |->
                 MathRound(SumCounts(weeks, 1) * 10, Len(weeks)),
               bestWeekCompletions |-> bestWeek.count,
               bestWeekLabel |-> bestWeek.label]))))

calculateDaysElapsed(startDate, endDate, clock) ==
  LET totalDays == getDayCount(startDate, endDate)
      daysElapsed == (clock - fromDateString(startDate)) + 1
  IN  IF daysElapsed <= 0 THEN 0
      ELSE IF daysElapsed >= totalDays THEN totalDays
      ELSE daysElapsed

----------------------------------------------------------------------------
(* Initial states: one goal, a ledger over its dates, a clock *)

\* A value that may be null: <<>> for null, <<value>> otherwise.
Null == <<>>
Some(x) == <<x>>

\* A DayEntry; completedAt is null or the day number of the completion.
Entry(goalId, date, isCompleted, completedAt, note) ==
  [goalId |-> goalId, date |-> date, isCompleted |-> isCompleted,
   completedAt |-> completedAt, note |-> note]

\* A Goal as addGoal stores it (colour and reminder time left out); a
\* timestamp is the day number of the clock that wrote it.
Goal(id, name, startDate, endDate, order, createdAt) ==
  [id |-> id, name |-> name, startDate |-> startDate, endDate |-> endDate,
   isArchived |-> FALSE, isCompleted |-> FALSE, order |-> order,
   createdAt |-> createdAt, updatedAt |-> createdAt]

\* The ledgers whose entries lie on the given days of one goal: each day has no
\* entry, an entry that is not completed, or a completed entry.
LedgersOver(goalId, dayNumbers) ==
  { [k \in {createKey(goalId, toDateString(n)) : n \in {x \in dayNumbers : a[x] # "absent"}}
       |-> Entry(goalId, k[2], a[fromDateString(k[2])] = "done",
                 IF a[fromDateString(k[2])] = "done" THEN Some(fromDateString(k[2])) ELSE Null,
                 "")]
    : a \in [dayNumbers -> {"absent", "open", "done"}] }

\* dayStore: the entry toggleCompletion and updateNote start from when none is
\* stored.
createEmptyEntry(goalId, date) == Entry(goalId, date, FALSE, Null, "")

\* days[key] || createEmptyEntry(goalId, date)
ExistingOrEmpty(ledger, goalId, date) ==
  IF createKey(goalId, date) \in DOMAIN ledger
  THEN ledger[createKey(goalId, date)]
  ELSE createEmptyEntry(goalId, date)

\* { ...state.days, [key]: entry }
WithEntry(ledger, key, entry) ==
  [k \in DOMAIN ledger \cup {key} |-> IF k = key THEN entry ELSE ledger[k]]

\* toggleCompletion that leaves completedAt as it finds it when the day goes
\* back to not completed.
toggleCompletionKeepingStamp(ledger, goalId, date, clock) ==
  Let(~EntryCompleted(ledger, goalId, date), LAMBDA newCompleted :
    WithEntry(ledger, createKey(goalId, date),
              IF newCompleted
              THEN [ExistingOrEmpty(ledger, goalId, date)
                      EXCEPT !.isCompleted = TRUE, !.completedAt = Some(clock)]
              ELSE [ExistingOrEmpty(ledger, goalId, date)
                      EXCEPT !.isCompleted = FALSE]))

toggleCompletion(ledger, goalId, date, clock) ==
  Let(~EntryCompleted(ledger, goalId, date), LAMBDA newCompleted :
    WithEntry(ledger, createKey(goalId, date),
              [ExistingOrEmpty(ledger, goalId, date)
                 EXCEPT !.isCompleted = newCompleted,
                        !.completedAt = IF newCompleted THEN Some(clock) ELSE Null]))

updateNote(ledger, goalId, date, note) ==
  WithEntry(ledger, createKey(goalId, date),
            [ExistingOrEmpty(ledger, goalId, date) EXCEPT !.note = note])

Min(a, b) == IF a <= b THEN a ELSE b
Max(a, b) == IF a >= b THEN a ELSE b

\* Goals held by the store at start: a start among `starts`, an end up to
\* MaxLen - 1 days after it or up to `back` days before it.
DrawnGoals(starts, back) ==
  { Goal(1, "Run", toDateString(p[1]), toDateString(p[1] + p[2]), 0, FirstDay) :
      p \in starts \X ((0 - back)..(MaxLen - 1)) }

\* Start days of the goals the grid is rendered for: the days around the end
\* of December 2024, a month of six Monday-start weeks, and around the end of
\* January 2025, a month of five.
GridStarts ==
  (FirstDay..(FirstDay + WindowLen)) \cup (SecondDay..(SecondDay + WindowLen))

\* Start days of the goals the statistics are computed for.
StatsStarts == FirstDay..(FirstDay + StatsWindowLen)

InputInit(starts, back) ==
  /\ \E g \in DrawnGoals(starts, back) :
       LET s == fromDateString(g.startDate)
           e == fromDateString(g.endDate)
       IN  /\ goals = <<g>>
           /\ days \in LedgersOver(1, Min(s, e)..Max(s, e))
           /\ now \in (Min(s, e) - 1)..(Max(s, e) + 1)
  /\ grid = NoValue
  /\ stats = NoValue
  /\ reads = NoValue
  /\ pc = "idle"
  /\ create = NoValue
  /\ settings = NoValue
  /\ modal = NoValue
  /\ hasCheckedCompletion = FALSE
  /\ scheduled = {}
  /\ calls = <<>>

----------------------------------------------------------------------------
(* Rendering the week grid of the goal screen *)

GridInit == InputInit(GridStarts, MaxBack)

\* One run of the useMemo callback of WeeklyDotGrid for the stored goal.
RenderWeeklyDotGrid ==
  /\ \E release \in DateFnsReleases :
       grid' = WeeklyDotGrid(goals[1], days, now, release)
  /\ UNCHANGED <<goals, days, now, stats, reads, pc, create, settings, modal,
                 hasCheckedCompletion, scheduled, calls>>

GridNext == RenderWeeklyDotGrid

SpecGrid == GridInit /\ [][GridNext]_vars

\* The grid of a goal of several months: a start around the end of December
\* 2024, no entry in the ledger yet, rendered the day before the start or on
\* the last day.
LongGoals(starts) ==
  { Goal(1, "Run", toDateString(p[1]), toDateString(p[1] + SpanStep * p[2]),
         0, FirstDay) :
      p \in starts \X (0..MaxSpans) }

LongInit ==
  /\ \E g \in LongGoals(FirstDay..(FirstDay + WindowLen)) :
       /\ goals = <<g>>
       /\ now \in {fromDateString(g.startDate) - 1, fromDateString(g.endDate)}
  /\ days = <<>>
  /\ grid = NoValue
  /\ stats = NoValue
  /\ reads = NoValue
  /\ pc = "idle"
  /\ create = NoValue
  /\ settings = NoValue
  /\ modal = NoValue
  /\ hasCheckedCompletion = FALSE
  /\ scheduled = {}
  /\ calls = <<>>

SpecLongGrid == LongInit /\ [][GridNext]_vars

\* The grid of a goal as the persisted store hands it back: the store is
\* rehydrated from its JSON without a check of the two date strings, so either
\* may be a string that names no calendar date.
UnparsedDate == <<2025, 13, 1>>

StoredDates ==
  {toDateString(n) : n \in FirstDay..(FirstDay + WindowLen)} \cup {UnparsedDate}

StoredInit ==
  /\ \E s \in StoredDates, e \in StoredDates :
       goals = <<Goal(1, "Run", s, e, 0, FirstDay)>>
  /\ days \in LedgersOver(1, {FirstDay})
  /\ now \in (FirstDay - 1)..(FirstDay + 1)
  /\ grid = NoValue
  /\ stats = NoValue
  /\ reads = NoValue
  /\ pc = "idle"
  /\ create = NoValue
  /\ settings = NoValue
  /\ modal = NoValue
  /\ hasCheckedCompletion = FALSE
  /\ scheduled = {}
  /\ calls = <<>>

SpecStoredGrid == StoredInit /\ [][GridNext]_vars

----------------------------------------------------------------------------
(* hooks/useStats.ts: one run of the useMemo callback for the stored goal.   *)
(* The callback calls its helpers one after the other and each helper reads  *)
(* the device clock itself, so the run is one step per helper; `reads`       *)
(* records the day each helper read and `stats` the locals computed so far.  *)

StatsInit == InputInit(StatsStarts, 0)

\* getDateRange throws through the helper that called it.
Throws(release) ==
  getDateRange(goals[1].startDate, goals[1].endDate, release) = RangeError

\* The helper `name` has returned `fields` and the callback goes on at `next`;
\* or it has thrown and the callback ends without a Stats value.
Returns(name, fields, next, thrown) ==
  /\ reads' = reads @@ (name :> now)
  /\ IF thrown
     THEN stats' = RangeError /\ pc' = "done"
     ELSE stats' = stats @@ fields /\ pc' = next
  /\ UNCHANGED <<goals, days, now, grid, create, settings, modal,
                 hasCheckedCompletion, scheduled, calls>>

BeginUseStats ==
  /\ pc = "idle"
  /\ pc' = "percentage"
  /\ stats' = [kind |-> "stats"]
  /\ reads' = <<>>
  /\ UNCHANGED <<goals, days, now, grid, create, settings, modal,
                 hasCheckedCompletion, scheduled, calls>>

CallCompletionPercentage ==
  /\ pc = "percentage"
  /\ \E release \in DateFnsReleases :
       Returns("percentage",
               [percentage |->
                  calculateCompletionPercentage(days, goals[1].id,
                    goals[1].startDate, goals[1].endDate, now, release)],
               "timeElapsedPercentage", Throws(release))

CallTimeElapsedPercentage ==
  /\ pc = "timeElapsedPercentage"
  /\ Returns("timeElapsedPercentage",
             [timeElapsedPercentage |->
                calculateTimeElapsedPercentage(goals[1].startDate,
                                               goals[1].endDate, now)],
             "daysRemaining", FALSE)

CallDaysRemaining ==
  /\ pc = "daysRemaining"
  /\ Returns("daysRemaining",
             [daysRemaining |->
                calculateDaysRemaining(goals[1].startDate, goals[1].endDate, now)],
             "currentStreak", FALSE)

CallCurrentStreak ==
  /\ pc = "currentStreak"
  /\ \E release \in DateFnsReleases :
       Returns("currentStreak",
               [currentStreak |->
                  calculateCurrentStreak(days, goals[1].id, goals[1].startDate,
                                         goals[1].endDate, now, release)],
               "longestStreak", Throws(release))

CallLongestStreak ==
  /\ pc = "longestStreak"
  /\ \E release \in DateFnsReleases :
       Returns("longestStreak",
               [longestStreak |->
                  calculateLongestStreak(days, goals[1].id, goals[1].startDate,
                                         goals[1].endDate, now, release)],
               "completionStats", Throws(release))

CallCompletionStats ==
  /\ pc = "completionStats"
  /\ \E release \in DateFnsReleases :
       Returns("completionStats",
               IF Throws(release) THEN <<>>
               ELSE Let(calculateCompletionStats(days, goals[1].id,
                          goals[1].startDate, goals[1].endDate, now, release),
                        LAMBDA completionStats :
                          [completionRate |-> completionStats.completionRate,
                           totalCompleted |-> completionStats.totalCompleted,
                           totalMissed    |-> completionStats.totalMissed]),
               "weeklyStats", Throws(release))

CallWeeklyStats ==
  /\ pc = "weeklyStats"
  /\ \E release \in DateFnsReleases :
       Returns("weeklyStats",
               IF Throws(release) THEN <<>>
               ELSE calculateWeeklyStats(days, goals[1].id, goals[1].startDate,
                                         goals[1].endDate, now, release),
               "daysElapsed", Throws(release))

\* totalDays (getDayCount, no clock read), daysElapsed and the returned record.
CallDaysElapsed ==
  /\ pc = "daysElapsed"
  /\ Returns("daysElapsed",
             [totalDays   |-> getDayCount(goals[1].startDate, goals[1].endDate),
              daysElapsed |-> calculateDaysElapsed(goals[1].startDate,
                                                   goals[1].endDate, now)],
             "done", FALSE)

\* Midnight passes on the device while the callback is between two helpers.
Midnight ==
  /\ pc \notin {"idle", "done"}
  /\ DOMAIN reads # {}
  /\ \A name \in DOMAIN reads : (now + 1) - reads[name] <= MaxTicks
  /\ now' = now + 1
  /\ UNCHANGED <<goals, days, grid, stats, reads, pc, create, settings, modal,
                 hasCheckedCompletion, scheduled, calls>>

UseStatsNext ==
  \/ BeginUseStats
  \/ CallCompletionPercentage
  \/ CallTimeElapsedPercentage
  \/ CallDaysRemaining
  \/ CallCurrentStreak
  \/ CallLongestStreak
  \/ CallCompletionStats
  \/ CallWeeklyStats
  \/ CallDaysElapsed

\* The statistics of a goal on one calendar day.
SpecStats == StatsInit /\ [][UseStatsNext]_vars

\* The statistics of a goal while the device clock runs.
SpecUseStats == StatsInit /\ [][UseStatsNext \/ Midnight]_vars

\* useStats for a goal of several months with no entry in the ledger yet, on
\* any day from the day before its start to the day after its end.
LongStatsInit ==
  /\ \E g \in LongGoals(FirstDay..(FirstDay + LongStatsWindowLen)) :
       /\ goals = <<g>>
       /\ now \in (fromDateString(g.startDate) - 1)..(fromDateString(g.endDate) + 1)
  /\ days = <<>>
  /\ grid = NoValue
  /\ stats = NoValue
  /\ reads = NoValue
  /\ pc = "idle"
  /\ create = NoValue
  /\ settings = NoValue
  /\ modal = NoValue
  /\ hasCheckedCompletion = FALSE
  /\ scheduled = {}
  /\ calls = <<>>

SpecLongStats == LongStatsInit /\ [][UseStatsNext]_vars

----------------------------------------------------------------------------
(* Properties of the grid *)

GoalOne == goals[1]
GoalStart == fromDateString(GoalOne.startDate)
GoalEnd == fromDateString(GoalOne.endDate)

\* The date strings of the calendar days start..end of the stored goal.
GoalDates == {toDateString(n) : n \in GoalStart..GoalEnd}

GridBuilt == grid.kind = "grid"

\* Positions <<row, column, day>> of the grid's day cells that are not
\* placeholders.
RealCells ==
  {p \in (DOMAIN grid.monthRows) \X (DOMAIN grid.weekColumnNumbers) \X (1..7) :
     /\ grid.monthRows[p[1]].weeks[p[2]] # NoValue
     /\ ~grid.monthRows[p[1]].weeks[p[2]].days[p[3]].isPlaceholder}

CellAt(p) == grid.monthRows[p[1]].weeks[p[2]].days[p[3]]

\* The calendar day after a date string, by the calendar's own rules.
NextCalendarDay(d) ==
  IF d[3] < DaysInMonth(d[1], d[2]) THEN <<d[1], d[2], d[3] + 1>>
  ELSE IF d[2] < 12 THEN <<d[1], d[2] + 1, 1>>
  ELSE <<d[1] + 1, 1, 1>>

\* The cells of the weeks groupIntoWeeks returned, as <<week, day>> positions.
WeekCells == (DOMAIN grid.weeks) \X (1..7)

InMonth(d, monthKey) == d[1] = monthKey[1] /\ d[2] - 1 = monthKey[2]

\* C1 (as claimed): every date of the goal's range is in a non-placeholder
\* cell of the grid, and that cell carries the ledger's completion flag.
C1_GridDateConservation ==
  (GridBuilt /\ GoalStart <= GoalEnd) =>
    \A d \in GoalDates :
      \E p \in RealCells :
        /\ CellAt(p).date = d
        /\ CellAt(p).isCompleted = EntryCompleted(days, GoalOne.id, d)

\* C4: for start <= end the expanded range has (end - start) + 1 elements,
\* begins with start, ends with end, each element is the calendar day after
\* its predecessor, and among the day cells built from it exactly the one
\* holding end is flagged isLastDay (no cell of the organised grid other than
\* one holding end carries the flag).
C4_RangeCoverage ==
  (GridBuilt /\ GoalStart <= GoalEnd) =>
    /\ Len(grid.dateRange) = (GoalEnd - GoalStart) + 1
    /\ grid.dateRange[1] = GoalOne.startDate
    /\ grid.dateRange[Len(grid.dateRange)] = GoalOne.endDate
    /\ \A i \in 1..(Len(grid.dateRange) - 1) :
         grid.dateRange[i + 1] = NextCalendarDay(grid.dateRange[i])
    /\ \A i \in DOMAIN grid.dateRange :
         \E q \in WeekCells :
           /\ grid.weeks[q[1]].days[q[2]].date = grid.dateRange[i]
           /\ ~grid.weeks[q[1]].days[q[2]].isPlaceholder
           /\ grid.weeks[q[1]].days[q[2]].isLastDay
                <=> (grid.dateRange[i] = GoalOne.endDate)
    /\ Cardinality({q \in WeekCells : grid.weeks[q[1]].days[q[2]].isLastDay}) = 1
    /\ \A p \in RealCells : CellAt(p).isLastDay => CellAt(p).date = GoalOne.endDate

\* C4 witness: a range that crosses a month end has been expanded and grouped.
C4_Witness ==
  /\ GridBuilt
  /\ GoalStart < GoalEnd
  /\ GoalOne.startDate[2] # GoalOne.endDate[2]
  /\ Len(grid.dateRange) = MaxLen

\* C5 (as claimed): a range whose start is after its end ends in an error
\* that reaches the caller, and no grid is produced for it.
C5_InvalidRangeIsError ==
  (grid # NoValue /\ GoalStart > GoalEnd) => grid = RangeError

\* C6: every non-placeholder cell of a month row has a date of that row's
\* month and year that lies in the goal range, and no date is in two
\* non-placeholder cells of the grid.
C6_GridCellUniqueness ==
  (GridBuilt /\ GoalStart <= GoalEnd) =>
    /\ \A p \in RealCells :
         /\ InMonth(CellAt(p).date, grid.monthRows[p[1]].monthKey)
         /\ CellAt(p).date \in GoalDates
    /\ \A p, q \in RealCells : CellAt(p).date = CellAt(q).date => p = q

\* C6 witness: one week sits in two month rows, with real days in each.
C6_Witness ==
  /\ GridBuilt
  /\ GoalStart <= GoalEnd
  /\ \E p, q \in RealCells :
       /\ p[1] # q[1]
       /\ grid.monthRows[p[1]].weeks[p[2]].startDate
            = grid.monthRows[q[1]].weeks[q[2]].startDate

\* The calendar date i days after the date string m.
DateAfter(m, i) == CivilFromDays(DaysFromCivil(m[1], m[2], m[3]) + i)

\* A ledger in which every date of every week of the grid is completed, the
\* dates outside the goal range included.
CompletedEverywhere ==
  [k \in {createKey(GoalOne.id, DateAfter(grid.weeks[w].startDate, i)) :
            w \in DOMAIN grid.weeks, i \in 0..6}
     |-> Entry(GoalOne.id, k[2], TRUE, fromDateString(k[2]), "")]

\* C21: every week of groupIntoWeeks has 7 cells, cell i (0 = Monday) carries
\* the date Monday + i, a cell is a placeholder exactly when its date is
\* outside start..end, and a placeholder is never completed, today or the last
\* day, whatever the ledger holds for its date.
C21_WeekBuckets ==
  (GridBuilt /\ GoalStart <= GoalEnd) =>
    /\ \A w \in DOMAIN grid.weeks :
         LET monday == grid.weeks[w].startDate
         IN  /\ (DaysFromCivil(monday[1], monday[2], monday[3]) + 3) % 7 = 0
             /\ DOMAIN grid.weeks[w].days = 1..7
             /\ \A i \in 1..7 :
                   LET cell == grid.weeks[w].days[i]
                   IN  /\ cell.date = DateAfter(monday, i - 1)
                       /\ cell.isPlaceholder <=> cell.date \notin GoalDates
                       /\ cell.isPlaceholder =>
                            (~cell.isCompleted /\ ~cell.isToday /\ ~cell.isLastDay)
    /\ Let(groupIntoWeeks(grid.dateRange, CompletedEverywhere, GoalOne.id, now),
           LAMBDA weeks :
             /\ DOMAIN weeks = DOMAIN grid.weeks
             /\ \A w \in DOMAIN weeks : \A i \in 1..7 :
                   /\ weeks[w].days[i].isPlaceholder
                        = grid.weeks[w].days[i].isPlaceholder
                   /\ weeks[w].days[i].isCompleted
                        = ~weeks[w].days[i].isPlaceholder)

\* C21 witness: a goal starting on a Wednesday, rendered on the Tuesday
\* before: the first week has placeholders at positions 0 and 1, today's date
\* among them, and a goal day at position 2.
C21_Witness ==
  /\ GridBuilt
  /\ GoalStart <= GoalEnd
  /\ (GoalStart + 3) % 7 = 2
  /\ now = GoalStart - 1
  /\ grid.weeks[1].days[1].isPlaceholder
  /\ grid.weeks[1].days[2].isPlaceholder
  /\ grid.weeks[1].days[2].date = toDateString(now)
  /\ ~grid.weeks[1].days[3].isPlaceholder

\* The number of the month of a date string, counted from year 0.
MonthIndex(date) == date[1] * 12 + (date[2] - 1)

\* C22: for start <= end the grid has one row per calendar month from the
\* month of startDate to the month of endDate, in increasing (year, month)
\* order, none skipped or repeated, also across a year boundary.
C22_RowOrdering ==
  (GridBuilt /\ GoalStart <= GoalEnd) =>
    /\ Len(grid.monthRows)
         = (MonthIndex(GoalOne.endDate) - MonthIndex(GoalOne.startDate)) + 1
    /\ \A r \in DOMAIN grid.monthRows :
         LET index == MonthIndex(GoalOne.startDate) + (r - 1)
         IN  /\ grid.monthRows[r].monthKey = <<index \div 12, index % 12>>
             /\ grid.monthRows[r].year = index \div 12

\* C22 witness: a grid of at least four month rows that begins in December
\* 2024 and goes on in 2025.
C22_Witness ==
  /\ GridBuilt
  /\ Len(grid.monthRows) >= 4
  /\ grid.monthRows[1].monthKey = <<2024, 11>>
  /\ grid.monthRows[2].monthKey = <<2025, 0>>

\* The months <<year, month>> in which the week starting on day number m has
\* a date of the goal's range.
MonthsOfWeek(m) ==
  {<<toDateString(n)[1], toDateString(n)[2] - 1>> :
     n \in {x \in m..(m + 6) : GoalStart <= x /\ x <= GoalEnd}}

\* C7 (as claimed): a week with a goal day in each of two months has a cell in
\* both months' rows; in each copy the days of the other month are
\* placeholders and the goal days of the row's month keep their flags.
C7_BoundaryWeekDuplication ==
  (GridBuilt /\ GoalStart <= GoalEnd) =>
    \A w \in DOMAIN grid.weeks :
      LET m == ParseLocal(grid.weeks[w].startDate)
      IN  Cardinality(MonthsOfWeek(m)) = 2 =>
            \A key \in MonthsOfWeek(m) :
              \E r \in DOMAIN grid.monthRows, c \in DOMAIN grid.weekColumnNumbers :
                /\ grid.monthRows[r].monthKey = key
                /\ grid.monthRows[r].weeks[c] # NoValue
                /\ grid.monthRows[r].weeks[c].startDate = grid.weeks[w].startDate
                /\ \A i \in 1..7 :
                     LET cell == grid.monthRows[r].weeks[c].days[i]
                     IN  IF InMonth(cell.date, key)
                         THEN cell = grid.weeks[w].days[i]
                         ELSE cell.isPlaceholder

\* The <<row, column>> positions of the grid that hold a week.
PopulatedCells ==
  {p \in (DOMAIN grid.monthRows) \X (DOMAIN grid.weekColumnNumbers) :
     grid.monthRows[p[1]].weeks[p[2]] # NoValue}

C12_SingleDayGoal ==
  (GridBuilt /\ GoalStart = GoalEnd) =>
    /\ Len(grid.monthRows) = 1
    /\ Cardinality(PopulatedCells) = 1
    /\ Cardinality(RealCells) = 1
    /\ (EntryCompleted(days, GoalOne.id, GoalOne.startDate) /\ now >= GoalStart)
         => /\ getDayCount(GoalOne.startDate, GoalOne.endDate) = 1
            /\ \A release \in DateFnsReleases :
                 calculateCompletionPercentage(days, GoalOne.id, GoalOne.startDate,
                                               GoalOne.endDate, now, release) = 100

\* The 0-based indexes at which organizeIntoGrid files the weeks of the grid
\* in the maps of its month rows.
PlacedIndexes ==
  {getWeekOfMonthForDisplay(grid.weeks[w].startDate,
                            grid.monthRows[r].monthKey[2],
                            grid.monthRows[r].monthKey[1]) :
     <<w, r>> \in {q \in (DOMAIN grid.weeks) \X (DOMAIN grid.monthRows) :
                     weekHasDaysInMonth(grid.weeks[q[1]].startDate,
                                        grid.monthRows[q[2]].monthKey[2],
                                        grid.monthRows[q[2]].monthKey[1])}}

\* C18 (as claimed): the number of columns is max(5, 1 + the largest index at
\* which a week is placed in a month row), and every month row has exactly
\* that many cells.
C18_ColumnCount ==
  (GridBuilt /\ GoalStart <= GoalEnd) =>
    /\ Len(grid.weekColumnNumbers) = Max(5, 1 + SetMax(PlacedIndexes))
    /\ \A r \in DOMAIN grid.monthRows :
         Len(grid.monthRows[r].weeks) = Len(grid.weekColumnNumbers)

\* C19 (as claimed): the week-of-month index of a week (getWeekOfMonth) lies
\* in 0..4 and is the 0-based column at which the week sits in the row of its
\* owning month.
C19_WeekOfMonthIsColumn ==
  (GridBuilt /\ GoalStart <= GoalEnd) =>
    \A w \in DOMAIN grid.weeks :
      /\ grid.weeks[w].weekNumber \in 0..4
      /\ \A r \in DOMAIN grid.monthRows :
           grid.monthRows[r].monthKey = <<grid.weeks[w].year, grid.weeks[w].month>>
             => /\ grid.monthRows[r].weeks[grid.weeks[w].weekNumber + 1] # NoValue
                /\ grid.monthRows[r].weeks[grid.weeks[w].weekNumber + 1].startDate
                     = grid.weeks[w].startDate

\* The calendar dates Monday .. Sunday of the week starting on date string m.
DatesOfWeek(m) == {CivilFromDays(DaysFromCivil(m[1], m[2], m[3]) + k) : k \in 0..6}

\* C20: the month and year stored on a week of groupIntoWeeks are those of
\* its Monday + 3, and at least 4 of the week's 7 dates lie in that month.
C20_MajorityRule ==
  GridBuilt =>
    \A w \in DOMAIN grid.weeks :
      LET m == grid.weeks[w].startDate
          thursday == CivilFromDays(DaysFromCivil(m[1], m[2], m[3]) + 3)
      IN  /\ grid.weeks[w].year = thursday[1]
          /\ grid.weeks[w].month = thursday[2] - 1
          /\ Cardinality({d \in DatesOfWeek(m) :
                            d[1] = grid.weeks[w].year
                              /\ d[2] - 1 = grid.weeks[w].month}) >= 4

\* C20 witness: a grouped week whose Monday lies in the month before the
\* month stored on it.
C20_Witness ==
  /\ GridBuilt
  /\ \E w \in DOMAIN grid.weeks :
       /\ grid.weeks[w].startDate[2] - 1 # grid.weeks[w].month
       /\ \E c \in 1..7 : ~grid.weeks[w].days[c].isPlaceholder

----------------------------------------------------------------------------
(* stores/goalStore.ts with the create screen (app/create.tsx) and the       *)
(* settings screen (app/goal/[id]/settings.tsx).  `create` and `settings`    *)
(* hold the local state of the screen that is open; a JS Date is its day     *)
(* number, a value that may be null is Null or Some(value).                  *)

DURATION_PRESETS == <<30, 90, 180, 365>>

\* The texts typed into a name field, and name.trim() of each.
Names == {"", " ", "Run"}
Trim(name) == IF name = " " THEN "" ELSE name

\* The days a date picker is used to choose.
PickerDays == FirstDay..(FirstDay + MaxPick)

\* list.sort((a, b) => a.order - b.order): a stable sort.
SortByOrder(list) ==
  LET Before(i, j) ==
        \/ list[i].order < list[j].order
        \/ (list[i].order = list[j].order /\ i < j)
      Rank(i) == Cardinality({j \in DOMAIN list : Before(j, i)}) + 1
  IN  [k \in DOMAIN list |-> list[CHOOSE i \in DOMAIN list : Rank(i) = k]]

getActiveGoals(list) ==
  SortByOrder(SelectSeq(list, LAMBDA g : ~g.isArchived))

\* addGoal: the new goal goes to the end of the list, ordered after the
\* active goals; ids are unique.
addGoal(list, name, startDate, endDate, clock) ==
  Append(list, Goal(Len(list) + 1, name, startDate, endDate,
                    Len(getActiveGoals(list)), clock))

\* updateGoal that takes the completed flag back when it writes the goal.
updateGoalClearingCompleted(list, id, name, startDate, endDate, clock) ==
  [i \in DOMAIN list |->
     IF list[i].id = id
     THEN [list[i] EXCEPT !.name = name, !.startDate = startDate,
                          !.endDate = endDate, !.isCompleted = FALSE,
                          !.updatedAt = clock]
     ELSE list[i]]

updateGoal(list, id, name, startDate, endDate, clock) ==
  [i \in DOMAIN list |->
     IF list[i].id = id
     THEN [list[i] EXCEPT !.name = name, !.startDate = startDate,
                          !.endDate = endDate, !.updatedAt = clock]
     ELSE list[i]]

\* archiveGoal with the order of the goal moved behind the active goals, as
\* unarchiveGoal moves it.
archiveGoalReordered(list, id, clock) ==
  [i \in DOMAIN list |->
     IF list[i].id = id
     THEN [list[i] EXCEPT !.isArchived = TRUE,
                          !.order = Len(getActiveGoals(list)),
                          !.updatedAt = clock]
     ELSE list[i]]

archiveGoal(list, id, clock) ==
  [i \in DOMAIN list |->
     IF list[i].id = id
     THEN [list[i] EXCEPT !.isArchived = TRUE, !.updatedAt = clock]
     ELSE list[i]]

unarchiveGoal(list, id, clock) ==
  [i \in DOMAIN list |->
     IF list[i].id = id
     THEN [list[i] EXCEPT !.isArchived = FALSE,
                          !.order = Len(getActiveGoals(list)),
                          !.updatedAt = clock]
     ELSE list[i]]

markGoalCompleted(list, id, clock) ==
  [i \in DOMAIN list |->
     IF list[i].id = id
     THEN [list[i] EXCEPT !.isCompleted = TRUE, !.updatedAt = clock]
     ELSE list[i]]

\* orderedIds.indexOf(id): the 0-based position of the first match, or -1.
IndexOf(orderedIds, id) ==
  LET found == {i \in DOMAIN orderedIds : orderedIds[i] = id}
  IN  IF found = {} THEN -1
      ELSE (CHOOSE i \in found : \A j \in found : i <= j) - 1

reorderGoals(list, orderedIds) ==
  [i \in DOMAIN list |->
     IF IndexOf(orderedIds, list[i].id) # -1
     THEN [list[i] EXCEPT !.order = IndexOf(orderedIds, list[i].id)]
     ELSE list[i]]

\* goals.find(goal => goal.id === id): the first match, or undefined.
getGoalById(list, id) ==
  LET found == {i \in DOMAIN list : list[i].id = id}
  IN  IF found = {} THEN Null
      ELSE Some(list[CHOOSE i \in found : \A j \in found : i <= j])

StoreInit ==
  /\ goals = <<>>
  /\ days = <<>>
  /\ now = FirstDay + 1
  /\ grid = NoValue
  /\ stats = NoValue
  /\ reads = NoValue
  /\ pc = "idle"
  /\ create = NoValue
  /\ settings = NoValue
  /\ modal = NoValue
  /\ hasCheckedCompletion = FALSE
  /\ scheduled = {}
  /\ calls = <<>>

OnlyScreen(screen) ==
  UNCHANGED <<goals, days, now, grid, stats, reads, pc, screen, modal,
              hasCheckedCompletion, scheduled, calls>>

\* CreateGoalScreen is mounted with its initial state.
OpenCreate ==
  /\ create = NoValue
  /\ settings = NoValue
  /\ create' = [kind |-> "create", name |-> "", startDate |-> now,
                durationDays |-> Some(30), customEndDate |-> Null]
  /\ OnlyScreen(settings)

CreateSetName ==
  /\ create # NoValue
  /\ \E name \in Names : create' = [create EXCEPT !.name = name]
  /\ OnlyScreen(settings)

\* The start date picker of the create screen: any day.
CreatePickStart ==
  /\ create # NoValue
  /\ \E date \in PickerDays : create' = [create EXCEPT !.startDate = date]
  /\ OnlyScreen(settings)

\* handleSelectDuration with a preset.
CreateSelectPreset ==
  /\ create # NoValue
  /\ \E i \in DOMAIN DURATION_PRESETS :
       create' = [create EXCEPT !.durationDays = Some(DURATION_PRESETS[i]),
                                !.customEndDate = Null]
  /\ OnlyScreen(settings)

\* handleSelectDuration(null): the custom duration.
CreateSelectCustom ==
  /\ create # NoValue
  /\ create' = [create EXCEPT !.durationDays = Null]
  /\ OnlyScreen(settings)

\* The end date picker of the create screen, shown for a custom duration and
\* limited by minimumDate={startDate}.
CreatePickEnd ==
  /\ create # NoValue
  /\ create.durationDays = Null
  /\ \E date \in PickerDays :
       /\ date >= create.startDate
       /\ create' = [create EXCEPT !.customEndDate = Some(date)]
  /\ OnlyScreen(settings)

\* const endDate = isCustomDuration ? customEndDate || new Date() : ...
CreateEndDate ==
  IF create.durationDays = Null
  THEN (IF create.customEndDate = Null THEN now ELSE create.customEndDate[1])
  ELSE fromDateString(calculateEndDate(toDateString(create.startDate),
                                       create.durationDays[1]))

canCreate == Trim(create.name) # ""

handleCreate ==
  /\ create # NoValue
  /\ canCreate
  /\ Len(goals) < MaxGoals
  /\ goals' = addGoal(goals, Trim(create.name), toDateString(create.startDate),
                      toDateString(CreateEndDate), now)
  /\ create' = NoValue
  /\ UNCHANGED <<days, now, grid, stats, reads, pc, settings, modal,
                 hasCheckedCompletion, scheduled, calls>>

CreateCancel ==
  /\ create # NoValue
  /\ create' = NoValue
  /\ OnlyScreen(settings)

\* GoalSettingsScreen is mounted for a stored goal.
OpenSettings ==
  /\ create = NoValue
  /\ settings = NoValue
  /\ \E i \in DOMAIN goals :
       settings' = [kind |-> "settings", id |-> goals[i].id,
                    name |-> goals[i].name,
                    startDate |-> fromDateString(goals[i].startDate),
                    endDate |-> fromDateString(goals[i].endDate)]
  /\ OnlyScreen(create)

SettingsGoal == CHOOSE g \in {goals[i] : i \in DOMAIN goals} : g.id = settings.id

\* The effect that tracks changes, as it stands when a button is pressed.
hasChanges ==
  \/ settings.name # SettingsGoal.name
  \/ toDateString(settings.startDate) # SettingsGoal.startDate
  \/ toDateString(settings.endDate) # SettingsGoal.endDate

canSave == Trim(settings.name) # "" /\ hasChanges

SettingsSetName ==
  /\ settings # NoValue
  /\ \E name \in Names : settings' = [settings EXCEPT !.name = name]
  /\ OnlyScreen(create)

\* The start date picker of the settings screen: any day.
SettingsPickStart ==
  /\ settings # NoValue
  /\ \E date \in PickerDays : settings' = [settings EXCEPT !.startDate = date]
  /\ OnlyScreen(create)

\* The end date picker of the settings screen, limited by
\* minimumDate={startDate}.
SettingsPickEnd ==
  /\ settings # NoValue
  /\ \E date \in PickerDays :
       /\ date >= settings.startDate
       /\ settings' = [settings EXCEPT !.endDate = date]
  /\ OnlyScreen(create)

handleSave ==
  /\ settings # NoValue
  /\ canSave
  /\ goals' = updateGoal(goals, settings.id, Trim(settings.name),
                         toDateString(settings.startDate),
                         toDateString(settings.endDate), now)
  /\ settings' = NoValue
  /\ UNCHANGED <<days, now, grid, stats, reads, pc, create, modal,
                 hasCheckedCompletion, scheduled, calls>>

SettingsCancel ==
  /\ settings # NoValue
  /\ settings' = NoValue
  /\ OnlyScreen(create)

StoreNext ==
  \/ OpenCreate
  \/ CreateSetName
  \/ CreatePickStart
  \/ CreateSelectPreset
  \/ CreateSelectCustom
  \/ CreatePickEnd
  \/ handleCreate
  \/ CreateCancel
  \/ OpenSettings
  \/ SettingsSetName
  \/ SettingsPickStart
  \/ SettingsPickEnd
  \/ handleSave
  \/ SettingsCancel

SpecStore == StoreInit /\ [][StoreNext]_vars

----------------------------------------------------------------------------
(* Archiving from the settings screen *)

\* The store holds up to MaxGoals goals, each active or archived, created in
\* order on the same day, and a ledger for the first of them.
ArchiveInit ==
  /\ \E n \in 1..MaxGoals : \E archived \in [1..n -> BOOLEAN] :
       goals = [i \in 1..n |->
                  [Goal(i, "Run", toDateString(FirstDay),
                        toDateString(FirstDay + 1), i - 1, FirstDay)
                     EXCEPT !.isArchived = archived[i]]]
  /\ days \in LedgersOver(1, FirstDay..(FirstDay + 1))
  /\ now \in (FirstDay + 1)..(FirstDay + 2)
  /\ grid = NoValue
  /\ stats = NoValue
  /\ reads = NoValue
  /\ pc = "idle"
  /\ create = NoValue
  /\ settings = NoValue
  /\ modal = NoValue
  /\ hasCheckedCompletion = FALSE
  /\ scheduled = {}
  /\ calls = <<>>

\* The confirm button of the alert handleArchive shows: the goal is archived,
\* or unarchived when it was archived, and the router replaces the screen.
handleArchive ==
  /\ settings # NoValue
  /\ goals' = IF SettingsGoal.isArchived
              THEN unarchiveGoal(goals, settings.id, now)
              ELSE archiveGoal(goals, settings.id, now)
  /\ settings' = NoValue
  /\ UNCHANGED <<days, now, grid, stats, reads, pc, create, modal,
                 hasCheckedCompletion, scheduled, calls>>

ArchiveNext ==
  \/ OpenSettings
  \/ handleArchive
  \/ SettingsCancel

SpecArchive == ArchiveInit /\ [][ArchiveNext]_vars

----------------------------------------------------------------------------
(* The order of the goal cards: the store operations that write `order` and  *)
(* `isArchived`, from the empty store.                                       *)

OnlyGoals ==
  UNCHANGED <<days, now, grid, stats, reads, pc, create, settings, modal,
              hasCheckedCompletion, scheduled, calls>>

\* The ids of the goals of the list that are not archived.
ActiveIds(list) == {list[i].id : i \in {j \in DOMAIN list : ~list[j].isArchived}}

\* The orderings of a set of ids: each id once.
OrderingsOf(ids) ==
  {p \in [1..Cardinality(ids) -> ids] :
     \A i \in DOMAIN p, j \in DOMAIN p : p[i] = p[j] => i = j}

OrderAddGoal ==
  /\ Len(goals) < MaxOrdered
  /\ goals' = addGoal(goals, "Run", toDateString(FirstDay),
                      toDateString(FirstDay + 1), now)
  /\ OnlyGoals

OrderArchiveGoal ==
  /\ \E id \in ActiveIds(goals) : goals' = archiveGoal(goals, id, now)
  /\ OnlyGoals

OrderUnarchiveGoal ==
  /\ \E i \in DOMAIN goals :
       /\ goals[i].isArchived
       /\ goals' = unarchiveGoal(goals, goals[i].id, now)
  /\ OnlyGoals

\* A drag of the cards: reorderGoals with the ids of all active goals.
OrderReorderGoals ==
  /\ \E orderedIds \in OrderingsOf(ActiveIds(goals)) :
       goals' = reorderGoals(goals, orderedIds)
  /\ OnlyGoals

OrderNext ==
  \/ OrderAddGoal
  \/ OrderArchiveGoal
  \/ OrderUnarchiveGoal
  \/ OrderReorderGoals

SpecOrder == StoreInit /\ [][OrderNext]_vars

----------------------------------------------------------------------------
(* The goal screen: dot taps and the day detail modal *)

\* The texts typed into the notes field.
Notes == {"", "walk"}

\* Start days of the goal the screen shows: around the turn of the year.
DaysStarts == (FirstDay + 4)..(FirstDay + 4 + DaysWindowLen)

\* The goal screen of a stored goal, opened on an empty ledger.
DaysInit ==
  /\ \E g \in DrawnGoals(DaysStarts, 0) :
       /\ goals = <<g>>
       /\ now \in (fromDateString(g.startDate) - 1)..fromDateString(g.endDate)
  /\ days = <<>>
  /\ grid = NoValue
  /\ stats = NoValue
  /\ reads = NoValue
  /\ pc = "idle"
  /\ create = NoValue
  /\ settings = NoValue
  /\ modal = NoValue
  /\ hasCheckedCompletion = FALSE
  /\ scheduled = {}
  /\ calls = <<>>

OnlyDays ==
  UNCHANGED <<goals, now, grid, stats, reads, pc, create, settings,
              hasCheckedCompletion, scheduled, calls>>

\* entry?.note || '' of the date the modal shows.
EntryNote(date) == ExistingOrEmpty(days, GoalOne.id, date).note

\* What a render of DayDetailModal leaves in the closures of its handlers:
\* the date, the text of the notes field, and isFuture(displayDate) as the
\* clock stood at the render.
Rendered(date, note) ==
  [kind |-> "modal", date |-> date, note |-> note,
   isFutureDate |-> isFuture(date, now)]

\* Single tap on a dot: completes a day that is neither complete nor in the
\* future.
handleDotComplete ==
  /\ modal = NoValue
  /\ \E date \in GoalDates :
       /\ ~isFuture(date, now)
       /\ ~EntryCompleted(days, GoalOne.id, date)
       /\ days' = toggleCompletion(days, GoalOne.id, date, now)
  /\ modal' = modal
  /\ OnlyDays

\* A dot opens the modal on its date; the notes field takes the stored note.
handleDotOpenModal ==
  /\ modal = NoValue
  /\ \E date \in GoalDates : modal' = Rendered(date, EntryNote(date))
  /\ days' = days
  /\ OnlyDays

\* Typing in the notes field (setNote), and the render that follows.
ModalSetNote ==
  /\ modal # NoValue
  /\ \E note \in Notes :
       /\ note # modal.note
       /\ modal' = Rendered(modal.date, note)
  /\ days' = days
  /\ OnlyDays

\* The ledger after handleSaveNote.
SavedNote(ledger) ==
  IF modal.note # EntryNote(modal.date)
  THEN updateNote(ledger, GoalOne.id, modal.date, modal.note)
  ELSE ledger

\* The notes field loses focus: the note is stored when it differs from the
\* stored one, and the modal renders again.
handleSaveNote ==
  /\ modal # NoValue
  /\ modal.note # EntryNote(modal.date)
  /\ days' = SavedNote(days)
  /\ modal' = Rendered(modal.date, modal.note)
  /\ OnlyDays

\* The completion button, shown and enabled when the date was not in the
\* future at the last render: toggles the day, then (after the haptic) saves
\* the note through handleClose and closes the modal.
handleToggleCompletion ==
  /\ modal # NoValue
  /\ ~modal.isFutureDate
  /\ days' = SavedNote(toggleCompletion(days, GoalOne.id, modal.date, now))
  /\ modal' = NoValue
  /\ OnlyDays

\* The close button or the backdrop: saves the note and closes the modal.
handleClose ==
  /\ modal # NoValue
  /\ days' = SavedNote(days)
  /\ modal' = NoValue
  /\ OnlyDays

\* The device clock passes midnight, up to the day after the goal's end.
NextDay ==
  /\ now <= GoalEnd
  /\ now' = now + 1
  /\ UNCHANGED <<goals, days, grid, stats, reads, pc, create, settings, modal,
                 hasCheckedCompletion, scheduled, calls>>

DaysNext ==
  \/ handleDotComplete
  \/ handleDotOpenModal
  \/ ModalSetNote
  \/ handleSaveNote
  \/ handleToggleCompletion
  \/ handleClose
  \/ NextDay

SpecDays == DaysInit /\ [][DaysNext]_vars

----------------------------------------------------------------------------
(* The completed flag of the goal on the goal screen: the completion effect  *)
(* of GoalScreen next to the dot and modal handlers and the settings screen  *)
(* pushed over it.                                                           *)

\* utils/stats.ts: allDates.every(date => days[key]?.isCompleted), or the
\* RangeError of getDateRange.
isGoalFullyCompleted(ledger, goalId, startDate, endDate, release) ==
  Let(getDateRange(startDate, endDate, release), LAMBDA allDates :
    IF allDates = RangeError THEN RangeError
    ELSE \A i \in DOMAIN allDates.list :
           EntryCompleted(ledger, goalId, allDates.list[i]))

\* The goal screen of a goal of one or two days starting on FirstDay, opened
\* on an empty ledger the day after FirstDay.
BadgeInit ==
  /\ \E len \in 0..1 :
       goals = <<Goal(1, "Run", toDateString(FirstDay),
                      toDateString(FirstDay + len), 0, FirstDay)>>
  /\ days = <<>>
  /\ now = FirstDay + 1
  /\ grid = NoValue
  /\ stats = NoValue
  /\ reads = NoValue
  /\ pc = "idle"
  /\ create = NoValue
  /\ settings = NoValue
  /\ modal = NoValue
  /\ hasCheckedCompletion = FALSE
  /\ scheduled = {}
  /\ calls = <<>>

\* The effect marks the goal: the goal is not completed, the ref is not set,
\* and isGoalFullyCompleted returned true.
EffectMarks(release) ==
  /\ ~GoalOne.isCompleted
  /\ ~hasCheckedCompletion
  /\ getDateRange(GoalOne.startDate, GoalOne.endDate, release) # RangeError
  /\ isGoalFullyCompleted(days, GoalOne.id, GoalOne.startDate,
                          GoalOne.endDate, release)

\* The completion effect of GoalScreen, run after a render in which goal or
\* days changed; a run that marks nothing (or throws) changes no state.
CompletionEffect ==
  /\ \E release \in DateFnsReleases : EffectMarks(release)
  /\ hasCheckedCompletion' = TRUE
  /\ goals' = markGoalCompleted(goals, GoalOne.id, now)
  /\ UNCHANGED <<days, now, grid, stats, reads, pc, create, settings, modal,
                 scheduled, calls>>

\* The goal screen is left and opened again: a new ref.
GoalScreenMount ==
  /\ modal = NoValue
  /\ settings = NoValue
  /\ hasCheckedCompletion
  /\ hasCheckedCompletion' = FALSE
  /\ UNCHANGED <<goals, days, now, grid, stats, reads, pc, create, settings,
                 modal, scheduled, calls>>

\* React runs the effect before the next event is handled.  The handlers of
\* the goal screen are reachable while the settings screen is not over it, and
\* the settings screen is opened from the goal screen with the modal closed.
EffectIdle == \E release \in DateFnsReleases : ~EffectMarks(release)
AtGoalScreen == EffectIdle /\ settings = NoValue
AtSettings == EffectIdle /\ modal = NoValue

BadgeNext ==
  \/ CompletionEffect
  \/ AtGoalScreen /\ handleDotComplete
  \/ AtGoalScreen /\ handleDotOpenModal
  \/ AtGoalScreen /\ ModalSetNote
  \/ AtGoalScreen /\ handleSaveNote
  \/ AtGoalScreen /\ handleToggleCompletion
  \/ AtGoalScreen /\ handleClose
  \/ AtGoalScreen /\ GoalScreenMount
  \/ AtSettings /\ OpenSettings
  \/ AtSettings /\ SettingsPickStart
  \/ AtSettings /\ SettingsPickEnd
  \/ AtSettings /\ handleSave
  \/ AtSettings /\ SettingsCancel
  \/ AtSettings /\ handleArchive

SpecBadge == BadgeInit /\ [][BadgeNext]_vars

----------------------------------------------------------------------------
(* services/notifications: calls of scheduleGoalNotification, each a chain   *)
(* of awaits on the OS scheduler that other calls may run between.           *)

\* The ids of the goals reminders are scheduled for.
ReminderGoals == {1, 2}

OnlyReminders ==
  UNCHANGED <<goals, days, now, grid, stats, reads, pc, create, settings,
              modal, hasCheckedCompletion>>

\* The identifiers of the scheduled notifications whose data.goalId is goalId.
ScheduledFor(goalId) ==
  {n.identifier : n \in {m \in scheduled : m.goalId = goalId}}

\* scheduleGoalNotification(goal) is called: without a notificationTime it
\* returns null at once, otherwise it runs up to the first await, inside
\* cancelGoalNotification.
BeginSchedule ==
  /\ Len(calls) < MaxCalls
  /\ \E goalId \in ReminderGoals, hasTime \in BOOLEAN :
       calls' = Append(calls, [goalId  |-> goalId,
                               at      |-> IF hasTime THEN "getAll" ELSE "done",
                               pending |-> {},
                               result  |-> Null])
  /\ scheduled' = scheduled
  /\ OnlyReminders

\* getAllScheduledNotificationsAsync resolves for a call: the loop goes on
\* over the notifications of the goal in the list it returned.
GetAllResolves ==
  /\ \E c \in DOMAIN calls :
       /\ calls[c].at = "getAll"
       /\ calls' = [calls EXCEPT
                      ![c].pending = ScheduledFor(calls[c].goalId),
                      ![c].at = IF ScheduledFor(calls[c].goalId) = {}
                                THEN "schedule" ELSE "cancel"]
  /\ scheduled' = scheduled
  /\ OnlyReminders

\* cancelScheduledNotificationAsync resolves for the next notification of
\* the list (the list's order is the scheduler's); cancelling an identifier
\* that is no longer scheduled changes nothing.
CancelResolves ==
  /\ \E c \in DOMAIN calls :
       /\ calls[c].at = "cancel"
       /\ \E identifier \in calls[c].pending :
            /\ scheduled' = {n \in scheduled : n.identifier # identifier}
            /\ calls' = [calls EXCEPT
                           ![c].pending = calls[c].pending \ {identifier},
                           ![c].at = IF calls[c].pending = {identifier}
                                     THEN "schedule" ELSE "cancel"]
  /\ OnlyReminders

\* scheduleNotificationAsync resolves with a new identifier and the call
\* returns it.
ScheduleResolves ==
  /\ \E c \in DOMAIN calls :
       /\ calls[c].at = "schedule"
       /\ scheduled' = scheduled \cup
                         {[identifier |-> c, goalId |-> calls[c].goalId]}
       /\ calls' = [calls EXCEPT ![c].at = "done", ![c].result = Some(c)]
  /\ OnlyReminders

RemindersNext ==
  \/ BeginSchedule
  \/ GetAllResolves
  \/ CancelResolves
  \/ ScheduleResolves

SpecReminders == StoreInit /\ [][RemindersNext]_vars

----------------------------------------------------------------------------
(* Properties of the statistics *)

\* The goal's dates that are not after the day the helper `name` read.
DatesUpTo(name) ==
  {d \in GoalDates : StrLE(d, getTodayString(reads[name]))}

\* The goal's dates strictly before the day the helper `name` read.
DatesBefore(name) ==
  {d \in GoalDates : d # getTodayString(reads[name])
                       /\ StrLE(d, getTodayString(reads[name]))}

StatsHas(field) == field \in DOMAIN stats

\* C2 as stated: totalCompleted + totalMissed of calculateCompletionStats is
\* the number of goal dates that are <= today, also when today lies in the
\* range and is not completed, and completionRate lies in 0..100.
C2_StatConservation ==
  StatsHas("totalCompleted") =>
    /\ stats.totalCompleted + stats.totalMissed
         = Cardinality(DatesUpTo("completionStats"))
    /\ stats.completionRate \in 0..100

\* C2 amended: totalCompleted + totalMissed of calculateCompletionStats is the
\* number of goal dates strictly before today, plus one when today is a goal
\* date whose record is completed; completionRate lies in 0..100.
C2_StatConservationAmended ==
  StatsHas("totalCompleted") =>
    /\ stats.totalCompleted + stats.totalMissed
         = Cardinality(DatesBefore("completionStats"))
             + (IF /\ getTodayString(reads["completionStats"]) \in GoalDates
                   /\ EntryCompleted(days, GoalOne.id,
                                     getTodayString(reads["completionStats"]))
                THEN 1 ELSE 0)
    /\ stats.completionRate \in 0..100

\* C2 witness: the totals of a goal with a past day done, a past day missed
\* and today, inside the range, not completed.
C2_Witness ==
  /\ StatsHas("totalCompleted")
  /\ getTodayString(reads["completionStats"]) \in GoalDates
  /\ ~EntryCompleted(days, GoalOne.id, getTodayString(reads["completionStats"]))
  /\ stats.totalCompleted = 1
  /\ stats.totalMissed = 1
  /\ stats.completionRate = 33

\* C3: longestStreak >= currentStreak, and when every goal date <= today is
\* completed both streaks equal the number of goal dates <= today.
C3_StreakMonotonicity ==
  StatsHas("longestStreak") =>
    /\ stats.longestStreak >= stats.currentStreak
    /\ (\A d \in DatesUpTo("longestStreak") : EntryCompleted(days, GoalOne.id, d))
         => /\ stats.currentStreak = Cardinality(DatesUpTo("longestStreak"))
            /\ stats.longestStreak = Cardinality(DatesUpTo("longestStreak"))

\* C3 witness: a goal of MaxLen days, all completed, seen on its last day, has
\* both streaks equal to MaxLen.
C3_Witness ==
  /\ StatsHas("longestStreak")
  /\ reads["longestStreak"] = GoalEnd
  /\ Cardinality(GoalDates) = MaxLen
  /\ \A d \in GoalDates : EntryCompleted(days, GoalOne.id, d)
  /\ stats.currentStreak = MaxLen
  /\ stats.longestStreak = MaxLen

\* a / b rounded to the nearest integer, halves upwards (a >= 0, b > 0).
Nearest(a, b) ==
  CHOOSE r \in 0..a : 2 * r * b <= 2 * a + b /\ 2 * a + b < 2 * (r + 1) * b

\* C15 (as claimed): completionRate is round(100 * totalCompleted / (pastDays
\* + (1 if today is a goal date else 0))), and 0 when that denominator is 0;
\* a goal whose first day is today and is completed has completionRate 100.
C15_CompletionRateFormula ==
  StatsHas("completionRate") =>
    LET denominator ==
          Cardinality(DatesBefore("completionStats"))
            + (IF getTodayString(reads["completionStats"]) \in GoalDates
               THEN 1 ELSE 0)
    IN  stats.completionRate =
          (IF denominator = 0 THEN 0
           ELSE Nearest(100 * stats.totalCompleted, denominator))

\* The day the backward count of the current streak starts from: the latest
\* goal day up to today, or the day before it when that day is today and is
\* not completed.
StreakStart(today) ==
  LET last == Min(GoalEnd, today)
  IN  IF last = today /\ ~EntryCompleted(days, GoalOne.id, toDateString(last))
      THEN last - 1 ELSE last

\* C16: calculateCurrentStreak is the number of consecutive completed goal
\* dates counted backward from the most recent goal date <= today, skipping
\* an incomplete today once; with today after an uncompleted end date it is 0.
C16_CurrentStreakRule ==
  StatsHas("currentStreak") =>
    /\ stats.currentStreak =
         Cardinality({n \in GoalStart..StreakStart(reads["currentStreak"]) :
                        \A k \in n..StreakStart(reads["currentStreak"]) :
                          EntryCompleted(days, GoalOne.id, toDateString(k))})
    /\ (/\ reads["currentStreak"] > GoalEnd
        /\ ~EntryCompleted(days, GoalOne.id, GoalOne.endDate))
         => stats.currentStreak = 0

\* C16 witness: today is the goal's third day and not completed, the two days
\* before it are completed, and the streak is 2.
C16_Witness ==
  /\ StatsHas("currentStreak")
  /\ reads["currentStreak"] = GoalStart + 2
  /\ reads["currentStreak"] <= GoalEnd
  /\ ~EntryCompleted(days, GoalOne.id, toDateString(GoalStart + 2))
  /\ EntryCompleted(days, GoalOne.id, toDateString(GoalStart + 1))
  /\ EntryCompleted(days, GoalOne.id, toDateString(GoalStart))
  /\ stats.currentStreak = 2

\* C17: calculateCompletionPercentage is round(100 * completedCount / n) over
\* the n goal dates <= today, 0 when n = 0; records of later dates do not
\* count.
C17_CompletionPercentage ==
  StatsHas("percentage") =>
    LET countable == DatesUpTo("percentage")
        completed == {d \in countable : EntryCompleted(days, GoalOne.id, d)}
    IN  stats.percentage =
          (IF countable = {} THEN 0
           ELSE Nearest(100 * Cardinality(completed), Cardinality(countable)))

\* C17 witness: one of two countable dates is completed, a date after today
\* is completed as well, and the percentage is 50.
C17_Witness ==
  /\ StatsHas("percentage")
  /\ Cardinality(DatesUpTo("percentage")) = 2
  /\ \E d \in GoalDates \ DatesUpTo("percentage") :
       EntryCompleted(days, GoalOne.id, d)
  /\ stats.percentage = 50

\* r is an integer nearest to a / b (b > 0).
IsNearest(r, a, b) ==
  IF r * b >= a THEN 2 * (r * b - a) <= b ELSE 2 * (a - r * b) <= b

\* C23: the time-elapsed percentage is 0 when today is before the start, 100
\* when today is on or after the end, and otherwise 100 * (today - start + 1) /
\* totalDays rounded to the nearest integer; it lies in 0..100 and is not
\* smaller on the next day.
C23_TimeElapsedPercentage ==
  StatsHas("timeElapsedPercentage") =>
    LET today == reads["timeElapsedPercentage"]
        totalDays == (GoalEnd - GoalStart) + 1
        percentage == stats.timeElapsedPercentage
    IN  /\ percentage \in 0..100
        /\ today < GoalStart => percentage = 0
        /\ today >= GoalEnd => percentage = 100
        /\ (GoalStart <= today /\ today < GoalEnd) =>
              IsNearest(percentage, 100 * ((today - GoalStart) + 1), totalDays)
        /\ percentage <= calculateTimeElapsedPercentage(GoalOne.startDate,
                                                        GoalOne.endDate, today + 1)

\* C23 witness: a day inside a goal of more than a month on which the exact
\* percentage is not an integer.
C23_Witness ==
  /\ StatsHas("timeElapsedPercentage")
  /\ GoalStart < reads["timeElapsedPercentage"]
  /\ reads["timeElapsedPercentage"] < GoalEnd
  /\ GoalEnd - GoalStart > 31
  /\ (100 * ((reads["timeElapsedPercentage"] - GoalStart) + 1))
       % ((GoalEnd - GoalStart) + 1) # 0
  /\ stats.timeElapsedPercentage \in 1..99

\* C24: for start <= end, daysRemaining is max(0, (end - today) + 1) and
\* daysElapsed is min(totalDays, max(0, (today - start) + 1)); on a day of the
\* goal the two add up to totalDays + 1, and daysRemaining is 0 exactly when
\* today is after the end.
C24_DaysRemainingAndElapsed ==
  (StatsHas("daysElapsed") /\ GoalStart <= GoalEnd) =>
    LET todayRemaining == reads["daysRemaining"]
        todayElapsed   == reads["daysElapsed"]
        totalDays      == (GoalEnd - GoalStart) + 1
    IN  /\ stats.totalDays = totalDays
        /\ stats.daysRemaining = Max(0, (GoalEnd - todayRemaining) + 1)
        /\ stats.daysElapsed
             = Min(totalDays, Max(0, (todayElapsed - GoalStart) + 1))
        /\ (todayRemaining = todayElapsed /\ GoalStart <= todayElapsed
              /\ todayElapsed <= GoalEnd) =>
             stats.daysElapsed + stats.daysRemaining = totalDays + 1
        /\ stats.daysRemaining = 0 <=> todayRemaining > GoalEnd

\* C24 witness: a day strictly inside a goal of more than a month, with days
\* elapsed and days remaining.
C24_Witness ==
  /\ StatsHas("daysElapsed")
  /\ GoalEnd - GoalStart > 31
  /\ GoalStart < reads["daysElapsed"]
  /\ reads["daysElapsed"] < GoalEnd
  /\ stats.daysElapsed > 1
  /\ stats.daysRemaining > 1

\* The day number of the Monday of the week of day n (day 0 is a Thursday).
MondayBefore(n) == n - ((n + 3) % 7)

\* The goal days up to the day calculateWeeklyStats read, and the Mondays of
\* their weeks.
CountableDays == {n \in GoalStart..GoalEnd : n <= reads["weeklyStats"]}
CountableMondays == {MondayBefore(n) : n \in CountableDays}

\* The completed countable days of the week starting on day m.
CompletedInWeek(m) ==
  {n \in CountableDays :
     MondayBefore(n) = m /\ EntryCompleted(days, GoalOne.id, toDateString(n))}

\* C25: over the Monday-start weeks holding a goal date <= today,
\* bestWeekCompletions is the largest number of completed countable dates of
\* one week (at most 7), bestWeekLabel is the label of the first week in time
\* that attains it, the average is the number of completed countable dates
\* over the number of those weeks (to one decimal), and without a countable
\* date the result is 0 with an empty label.
C25_BestWeek ==
  (StatsHas("bestWeekCompletions") /\ GoalStart <= GoalEnd) =>
    IF CountableDays = {}
    THEN /\ stats.bestWeekCompletions = 0
         /\ stats.bestWeekLabel = <<"", 0>>
         /\ stats.averageCompletionsPerWeek = 0
    ELSE LET best == SetMax({Cardinality(CompletedInWeek(m)) : m \in CountableMondays})
             firstBest == CHOOSE m \in CountableMondays :
                            /\ Cardinality(CompletedInWeek(m)) = best
                            /\ \A k \in CountableMondays :
                                 Cardinality(CompletedInWeek(k)) = best => m <= k
             completed == {n \in CountableDays :
                             EntryCompleted(days, GoalOne.id, toDateString(n))}
         IN  /\ stats.bestWeekCompletions = best
             /\ best <= 7
             /\ stats.bestWeekLabel = <<"Week", getISOWeek(firstBest)>>
             /\ IsNearest(stats.averageCompletionsPerWeek,
                          10 * Cardinality(completed), Cardinality(CountableMondays))

\* C25 witness: two weeks with the same positive number of completions; the
\* label is the first week's and not the second's.
C25_Witness ==
  /\ StatsHas("bestWeekCompletions")
  /\ Cardinality(CountableMondays) = 2
  /\ \A m \in CountableMondays :
       Cardinality(CompletedInWeek(m)) = stats.bestWeekCompletions
  /\ stats.bestWeekCompletions >= 1
  /\ \E m \in CountableMondays :
       /\ stats.bestWeekLabel = <<"Week", getISOWeek(m)>>
       /\ stats.bestWeekLabel # <<"Week", getISOWeek(m + 7)>>

\* The Stats value useStats returns for the stored goal and a ledger when
\* every helper reads the day `clock`.
UseStatsOf(ledger, clock, release) ==
  Let(calculateCompletionStats(ledger, GoalOne.id, GoalOne.startDate,
                               GoalOne.endDate, clock, release),
      LAMBDA completionStats :
        [kind |-> "stats",
         percentage |->
           calculateCompletionPercentage(ledger, GoalOne.id, GoalOne.startDate,
                                         GoalOne.endDate, clock, release),
         timeElapsedPercentage |->
           calculateTimeElapsedPercentage(GoalOne.startDate, GoalOne.endDate, clock),
         daysRemaining |->
           calculateDaysRemaining(GoalOne.startDate, GoalOne.endDate, clock),
         currentStreak |->
           calculateCurrentStreak(ledger, GoalOne.id, GoalOne.startDate,
                                  GoalOne.endDate, clock, release),
         longestStreak |->
           calculateLongestStreak(ledger, GoalOne.id, GoalOne.startDate,
                                  GoalOne.endDate, clock, release),
         completionRate |-> completionStats.completionRate,
         totalCompleted |-> completionStats.totalCompleted,
         totalMissed    |-> completionStats.totalMissed,
         totalDays   |-> getDayCount(GoalOne.startDate, GoalOne.endDate),
         daysElapsed |->
           calculateDaysElapsed(GoalOne.startDate, GoalOne.endDate, clock)]
        @@ calculateWeeklyStats(ledger, GoalOne.id, GoalOne.startDate,
                                GoalOne.endDate, clock, release))

\* The Stats value of the stored goal when every helper reads the day `clock`.
UseStatsOn(clock, release) == UseStatsOf(days, clock, release)

\* C8: the Stats value one run of useStats returns is the value for one single
\* today, also when midnight passes between two helper calls of the run.
C8_SingleTodayPerComputation ==
  (pc = "done" /\ StatsHas("daysElapsed")) =>
    \E clock \in {reads[name] : name \in DOMAIN reads} :
      \E release \in DateFnsReleases : stats = UseStatsOn(clock, release)

----------------------------------------------------------------------------
(* Properties of the goal store *)

\* C10 (as claimed): after any creations through the create screen and saves
\* through the settings screen every stored goal has startDate <= endDate.
C10_GoalDateOrder ==
  \A i \in DOMAIN goals : StrLE(goals[i].startDate, goals[i].endDate)

----------------------------------------------------------------------------
(* Properties of archiving *)

\* The fields of a goal other than the two archiveGoal writes.
KeptFields(goal) == DOMAIN goal \ {"isArchived", "updatedAt"}

\* C14: archiving a goal from the settings screen changes only isArchived and
\* updatedAt of the goal with that id; its other fields, every other goal and
\* every entry of the day ledger stay as they were, and getGoalById still
\* returns the goal.
C14_ArchivePreservesData ==
  [][(handleArchive /\ ~SettingsGoal.isArchived) =>
       LET id == settings.id
       IN  /\ DOMAIN goals' = DOMAIN goals
           /\ \A i \in DOMAIN goals :
                 IF goals[i].id = id
                 THEN /\ DOMAIN goals'[i] = DOMAIN goals[i]
                      /\ \A f \in KeptFields(goals[i]) :
                            goals'[i][f] = goals[i][f]
                      /\ goals'[i].isArchived
                      /\ getGoalById(goals', id) = Some(goals'[i])
                 ELSE goals'[i] = goals[i]
           /\ days' = days]_vars

\* C14 witness: a goal archived on a later day than it was created, next to
\* another goal and a ledger with entries.
C14_Witness ==
  /\ Len(goals) > 1
  /\ days # <<>>
  /\ \E i \in DOMAIN goals :
       goals[i].isArchived /\ goals[i].updatedAt > goals[i].createdAt

----------------------------------------------------------------------------
(* Properties of the day ledger *)

\* C13: starting from an empty ledger, whatever dots are tapped, modal
\* completion buttons pressed and notes edited while the clock moves forward,
\* no ledger entry dated after today is completed.
C13_NoFutureCompletion ==
  \A k \in DOMAIN days :
    days[k].isCompleted => fromDateString(days[k].date) <= now

\* C13 witness: a day completed on its own date and holding a note, next to a
\* note stored for a day that is still in the future and not completed.
C13_Witness ==
  /\ \E k \in DOMAIN days :
       /\ days[k].isCompleted
       /\ days[k].completedAt = Some(fromDateString(days[k].date))
       /\ days[k].note # ""
  /\ \E k \in DOMAIN days :
       /\ fromDateString(days[k].date) > now
       /\ ~days[k].isCompleted
       /\ days[k].note # ""

\* The ledger without its entries that are not completed.
OnlyCompleted(ledger) ==
  [k \in {j \in DOMAIN ledger : ledger[j].isCompleted} |-> ledger[k]]

\* Everything the goal screen derives from a ledger today: the statistics and
\* the week grid.
ViewOf(ledger, release) ==
  <<UseStatsOf(ledger, now, release), WeeklyDotGrid(GoalOne, ledger, now, release)>>

\* The ledger after a day is marked complete and un-marked again.
ToggledTwice(ledger, date) ==
  toggleCompletion(toggleCompletion(ledger, GoalOne.id, date, now),
                   GoalOne.id, date, now)

\* C11: an entry that is not completed counts as no entry: the statistics and
\* the grid of the ledger are those of the ledger without its not-completed
\* entries, and marking a not-completed day complete and un-marking it again
\* leaves every statistic and grid cell as it was.
C11_MissingIsNotCompleted ==
  \A release \in DateFnsReleases :
    Let(ViewOf(days, release), LAMBDA view :
      /\ Let(OnlyCompleted(days), LAMBDA ledger :
               ViewOf(ledger, release) = view)
      /\ \A date \in GoalDates :
            ~EntryCompleted(days, GoalOne.id, date) =>
              Let(ToggledTwice(days, date), LAMBDA ledger :
                    ViewOf(ledger, release) = view))

\* C11 witness: a ledger holding an entry that is not completed for a day up
\* to today, a completed entry, and a goal date without entry.
C11_Witness ==
  /\ \E k \in DOMAIN days :
       ~days[k].isCompleted /\ fromDateString(days[k].date) <= now
  /\ \E k \in DOMAIN days : days[k].isCompleted
  /\ \E date \in GoalDates : createKey(GoalOne.id, date) \notin DOMAIN days

\* The goal ids the ledger operations are called with: the stored goal and one
\* more.
LedgerGoalIds == {GoalOne.id, GoalOne.id + 1}

\* The entries of `after` under every key but `key` are those of `before`,
\* and `after` has an entry under `key`.
OnlyKeyWritten(before, after, key) ==
  /\ DOMAIN after = DOMAIN before \cup {key}
  /\ \A k \in DOMAIN before \ {key} : after[k] = before[k]

\* C27: on every ledger the goal screen reaches, toggleCompletion(g, d) writes
\* only the entry keyed (g, d): isCompleted is flipped, completedAt is non-null
\* exactly when the new isCompleted is true, the note is kept; updateNote(g, d,
\* n) writes only that entry: the note is n, isCompleted and completedAt are
\* kept; and in the ledger itself completedAt is non-null exactly on the
\* completed entries.
C27_LedgerWriteFrame ==
  /\ \A k \in DOMAIN days : (days[k].completedAt # Null) <=> days[k].isCompleted
  /\ \A g \in LedgerGoalIds, d \in GoalDates :
       Let(ExistingOrEmpty(days, g, d), LAMBDA old :
         /\ Let(toggleCompletion(days, g, d, now), LAMBDA after :
              /\ OnlyKeyWritten(days, after, createKey(g, d))
              /\ after[createKey(g, d)].isCompleted = ~old.isCompleted
              /\ (after[createKey(g, d)].completedAt # Null)
                   <=> after[createKey(g, d)].isCompleted
              /\ after[createKey(g, d)].note = old.note
              /\ after[createKey(g, d)].goalId = g
              /\ after[createKey(g, d)].date = d)
         /\ \A n \in Notes :
              Let(updateNote(days, g, d, n), LAMBDA after :
                /\ OnlyKeyWritten(days, after, createKey(g, d))
                /\ after[createKey(g, d)] = [old EXCEPT !.note = n]))

\* C27 witness: a ledger the two operations have written: a completed day
\* with a note next to an entry that is back to not completed and has no
\* note.
C27_Witness ==
  \E k1 \in DOMAIN days, k2 \in DOMAIN days :
    /\ k1 # k2
    /\ days[k1].isCompleted /\ days[k1].completedAt # Null
    /\ days[k1].note # ""
    /\ ~days[k2].isCompleted /\ days[k2].completedAt = Null
    /\ days[k2].note = ""

\* C28 (as claimed): the goals that are not archived have pairwise distinct
\* order values.
C28_ActiveOrdersDistinct ==
  \A i \in DOMAIN goals, j \in DOMAIN goals :
    (i # j /\ ~goals[i].isArchived /\ ~goals[j].isArchived)
      => goals[i].order # goals[j].order

\* C29: the goal's isCompleted flag turns true only in a step of the goal
\* screen's completion effect taken where every date from startDate to endDate
\* is completed in the ledger, and no step turns it back to false.
C29_CompletedLatched ==
  [][ /\ (~GoalOne.isCompleted /\ goals'[1].isCompleted) =>
           /\ ~hasCheckedCompletion /\ hasCheckedCompletion'
           /\ days' = days
           /\ \A d \in GoalDates : EntryCompleted(days, GoalOne.id, d)
      /\ GoalOne.isCompleted => goals'[1].isCompleted ]_vars

\* C29 witness: the goal is marked completed and archived, its end date has
\* been moved to a day after today, and a date of its range is not completed.
C29_Witness ==
  /\ GoalOne.isCompleted
  /\ GoalOne.isArchived
  /\ GoalEnd > now
  /\ \E d \in GoalDates : ~EntryCompleted(days, GoalOne.id, d)
  /\ \E k \in DOMAIN days : days[k].note # ""

\* C30 (as claimed): when no call of scheduleGoalNotification is in flight,
\* at most one scheduled notification carries a given goal's id.
C30_OneReminderPerGoal ==
  (\A c \in DOMAIN calls : calls[c].at = "done") =>
    \A goalId \in ReminderGoals : Cardinality(ScheduledFor(goalId)) <= 1

====
